---------------------------- MODULE Spec2Model ----------------------------
(***************************************************************************)
(* Model of the CDR flux post-processing of carbonplan/aglime-swap-cdr,    *)
(* src/scepter/setup/cflx_proc.py, and of the run helpers duration_check,  *)
(* generate_timesteps (scepter_helperFxns.py) and build_composite          *)
(* (build_composite_multiyear.py).                                         *)
(*                                                                         *)
(* The specifications share the variables of this module:                  *)
(*   SpecCalc  cflx_calc, the orchestrator: which input files exist, which *)
(*             assemblers are invoked, what raises, what is persisted;     *)
(*   SpecFlx   co2_flx and carbAlk_adv as functions of their two input     *)
(*             tables and of convert_units;                                *)
(*   SpecCat   sumCat_adv, find_cations and build_cation_df over the flux  *)
(*             files of the four registry cations;                         *)
(*   SpecCatGrid  SpecCat with cation files on time grids of their own;    *)
(*   SpecSld   sld_flx over the feedstock's files and dust.txt;            *)
(*   SpecForward  cflx_calc's sumCat_adv and sld_flx blocks with its       *)
(*             dust_from_file and convert_units arguments free;            *)
(*   SpecTxt   preprocess_txt over the lines of a file;                    *)
(*   SpecDur   duration_check;                                             *)
(*   SpecSteps, SpecStepsFair  generate_timesteps, iteration by iteration; *)
(*   SpecComposite  build_composite over the sub-run directories;          *)
(*   SpecSession  any sequence of calls of co2_flx, carbAlk_adv,           *)
(*             sumCat_adv, sld_flx, cflx_calc and prof_postproc_save on    *)
(*             one run directory, with the objects the calls share.        *)
(* A specification keeps the variables of the others at their idle values. *)
(*                                                                         *)
(* Numbers.  The program computes in floating point; the model computes    *)
(* exactly, in integers.  An input flux is an integer count of tenths of   *)
(* mol m-2 yr-1 (InDenom = 10), time is an integer count of years, and a   *)
(* derived column is an integer numerator over the denominator stated      *)
(* where the column is defined.  A column that a pandas frame does not     *)
(* have, or holds NaN in, is a column absent from the DOMAIN of the row.   *)
(***************************************************************************)
EXTENDS Integers, Sequences, FiniteSets, TLC

VARIABLES
    \* ---- cflx_calc (SpecCalc)
    files,          \* names of the files present under <outdir>/<runname>/flx
    calc_list,      \* the calc_list argument
    feedstock,      \* the feedstock argument: [list |-> BOOLEAN, val |-> ...]
    pc,             \* position of cflx_calc
    savedir,        \* whether <outdir>/<runname>/<save_dir> exists
    saved,          \* names of the artifacts under the save directory
    invoked,        \* assemblers called so far
    fs_todo,        \* feedstocks the sld_flx loop has still to process
    failed,         \* the metric whose assembler raised, or "none"
    raised,         \* the exception that ended cflx_calc, or "none"
    \* ---- co2_flx, carbAlk_adv (SpecFlx)
    df,             \* the instantaneous table read by get_data
    dfint,          \* the int_ table read by get_data
    convert_units,  \* the convert_units argument
    flxpc,          \* "ready", or the assembler that has returned
    outdf,          \* the table the assembler returned
    \* ---- sumCat_adv (SpecCat)
    flxdir,         \* flx/ as a function: name of an existing file -> its table
    sc_convert_units, \* the convert_units argument of sumCat_adv
    sc_pc,          \* "ready", "returned" or "raised"
    sc_ret,         \* what sumCat_adv returned: [outdfx, out_dict]
    sc_raised,      \* the exception sumCat_adv raised, or "none"
    \* ---- sld_flx (SpecSld)
    sld_feedstock,  \* the feedstock argument
    dust_from_file, \* the dust_from_file argument
    sld_df,         \* the table of flx_sld-<feedstock>.txt
    sld_dfint,      \* the table of int_flx_sld-<feedstock>.txt
    dfdust0,        \* the table of dust.txt
    sld_pc,         \* "ready", "returned" or "raised"
    sld_ret,        \* the table sld_flx returned
    sld_raised,     \* the exception sld_flx raised, or "none"
    \* ---- preprocess_txt (SpecTxt)
    txt_tokens,     \* the tokens written on each line of the file
    txt_lines,      \* the lines of the file, each a sequence of characters
    map_numeric,    \* the map_numeric argument
    txt_pc,         \* "ready", "returned" or "raised"
    txt_ret,        \* the frame returned: [columns, rows]
    txt_raised,     \* the exception preprocess_txt raised, or "none"
    \* ---- duration_check (SpecDur)
    dc_isfile,      \* whether <directory>/flx/<file_to_check> exists
    dc_times,       \* the time column of the checked file, in 1/1000 year
    target_duration, \* the target_duration argument, in 1/1000 year
    duration_tol,   \* the duration_tol argument, in thousandths of a percent
    dc_pc,          \* "ready", "returned" or "raised"
    dc_ret,         \* what duration_check returned: [diff_result, dur_list]
    \* ---- generate_timesteps (SpecSteps)
    total_duration, \* the total_duration argument
    timestep,       \* the timestep argument
    current_time,   \* the local current_time
    timesteparr,    \* the local timesteparr
    ts_pc,          \* "loop", "returned" or "MemoryError"
    \* ---- build_composite (SpecComposite)
    subruns,        \* the sub-run directories under outdir, by name
    cmp_todo,       \* alldirs from the current position of the loop on
    composite,      \* the lines of the composite flx file, <<>> before it exists
    cmp_pc,         \* "start", "loop" or "done"
    \* ---- a session of calls on one run (SpecSession)
    rundir,         \* <outdir>/<runname>: subdirectory -> (file name -> table)
    module_dict,    \* the module-level object molar_mass_dict, as it stands
    defaults,       \* the default-argument objects of the functions
    caller,         \* the arguments the caller holds and passes
    calls,          \* how many times each call has been made
    results         \* what the latest call of each kind returned or raised

calcVars == <<files, calc_list, feedstock, pc, savedir, saved, invoked,
              fs_todo, failed, raised>>

flxVars == <<df, dfint, convert_units, flxpc, outdf>>

catVars == <<flxdir, sc_convert_units, sc_pc, sc_ret, sc_raised>>

sldVars == <<sld_feedstock, dust_from_file, sld_df, sld_dfint, dfdust0,
             sld_pc, sld_ret, sld_raised>>

txtVars == <<txt_tokens, txt_lines, map_numeric, txt_pc, txt_ret, txt_raised>>

durVars == <<dc_isfile, dc_times, target_duration, duration_tol, dc_pc, dc_ret>>

tsVars == <<total_duration, timestep, current_time, timesteparr, ts_pc>>

cmpVars == <<subruns, cmp_todo, composite, cmp_pc>>

sessVars == <<rundir, module_dict, defaults, caller, calls, results>>

auxVars == <<txtVars, durVars, tsVars, cmpVars, sessVars>>

vars == <<calcVars, flxVars, catVars, sldVars, auxVars>>

-----------------------------------------------------------------------------
(* Bounds of the model *)

\* at most this many input files are missing from flx/ in a run of cflx_calc
MaxMissing == 2

\* a generated input table of co2_flx / carbAlk_adv has at most this many rows
MaxRows == 2

-----------------------------------------------------------------------------
(* File names *)

\* get_data: fn = f"{var_fn}-{cdvar}.txt"
FlxFile(var_fn, cdvar) == var_fn \o "-" \o cdvar \o ".txt"

\* get_data: fn_int = f"int_{fn}"
IntFile(var_fn, cdvar) == "int_" \o FlxFile(var_fn, cdvar)

\* default registry of sumCat_adv / find_cations, keys in insertion order
catvars_keys == <<"ca", "mg", "k", "na">>
catvars_charge == [ca |-> 2, mg |-> 2, k |-> 1, na |-> 1]

Range(s) == {s[i] : i \in DOMAIN s}

\* feedstock identifiers used by the runs of the model; both are keys of
\* molar_mass_dict
FeedstockIds == {"cc", "gbas"}

AllFiles ==
    {FlxFile("flx_gas", "pco2"), IntFile("flx_gas", "pco2"),
     FlxFile("flx_co2sp", "ALK"), IntFile("flx_co2sp", "ALK"), "dust.txt"}
    \cup {FlxFile("flx_aq", c) : c \in Range(catvars_keys)}
    \cup {IntFile("flx_aq", c) : c \in Range(catvars_keys)}
    \cup {FlxFile("flx_sld", f) : f \in FeedstockIds}
    \cup {IntFile("flx_sld", f) : f \in FeedstockIds}


-----------------------------------------------------------------------------
(* The assemblers as cflx_calc sees them: what each call raises for a given *)
(* content of flx/.  The input tables are well formed (every file that     *)
(* exists parses and holds the columns its assembler reads), so a call      *)
(* fails only on a file that is missing, through open() in preprocess_txt.  *)

\* get_data: preprocess_txt(fn) and then preprocess_txt(fn_int); open() raises
\* FileNotFoundError for a missing file
get_data_raises(fs, var_fn, cdvar) ==
    IF FlxFile(var_fn, cdvar) \notin fs THEN "FileNotFoundError"
    ELSE IF IntFile(var_fn, cdvar) \notin fs THEN "FileNotFoundError"
    ELSE "none"

\* co2_flx as called by cflx_calc: var_fn="flx_gas", cdvar="pco2"
co2_flx_raises(fs) == get_data_raises(fs, "flx_gas", "pco2")

\* carbAlk_adv as called by cflx_calc: var_fn="flx_co2sp", cdvar="ALK"
carbAlk_adv_raises(fs) == get_data_raises(fs, "flx_co2sp", "ALK")

\* find_cations: the registry keys, in registry order, whose instantaneous
\* file exists (os.path.exists on flx_aq-<key>.txt only)
find_cations_with(fs, keys) ==
    SelectSeq(keys, LAMBDA key : FlxFile("flx_aq", key) \in fs)

\* find_cations with the default registry
find_cations(fs) == find_cations_with(fs, catvars_keys)

\* sumCat_adv: get_data for every cation found, in order; with no cation found
\* the loop body never binds outdfint and line 825 reads it
sumCat_adv_raises(fs) ==
    LET catvars_exist == find_cations(fs)
        bad == {i \in DOMAIN catvars_exist :
                   get_data_raises(fs, "flx_aq", catvars_exist[i]) # "none"}
    IN  IF bad # {} THEN "FileNotFoundError"
        ELSE IF catvars_exist = <<>> THEN "UnboundLocalError"
        ELSE "none"

\* sld_flx as called by cflx_calc (dust_from_file=True): get_data on the
\* feedstock's files, then preprocess_txt on dust.txt
sld_flx_raises(fs, f) ==
    IF get_data_raises(fs, "flx_sld", f) # "none" THEN "FileNotFoundError"
    ELSE IF "dust.txt" \notin fs THEN "FileNotFoundError"
    ELSE "none"

-----------------------------------------------------------------------------
(* Artifacts written by cflx_calc *)

co2_savename == "co2_flxs.pkl"
carbAlk_savename == "carbAlk_flxs.pkl"

\* (mutant) only the summary is pickled
sumCat_savenames_sum_only(fs) == {"cationflx_sum.pkl"}

\* cationflx_sum.pkl and one cationflx_<name>.pkl per key of sumCatdict
sumCat_savenames(fs) ==
    {"cationflx_sum.pkl"}
    \cup {"cationflx_" \o c \o ".pkl" : c \in Range(find_cations(fs))}

\* savename = f"rockflx_{fs}.pkl"
sld_savename(f) == "rockflx_" \o f \o ".pkl"

-----------------------------------------------------------------------------
(* cflx_calc, one action per block of the function.  The blocks run in the  *)
(* order of the source; an exception raised by an assembler is caught       *)
(* nowhere in cflx_calc, so it ends the call.                               *)

MetricNames == {"co2_flx", "carbAlk_adv", "sumCat_adv", "sld_flx"}

FeedstockArgs ==
    {[list |-> FALSE, val |-> f] : f \in FeedstockIds}
    \cup {[list |-> TRUE, val |-> <<"cc">>],
          [list |-> TRUE, val |-> <<"cc", "gbas">>],
          [list |-> TRUE, val |-> <<"gbas", "cc">>]}

CalcIdle ==
    /\ files = {}
    /\ calc_list = {}
    /\ feedstock = [list |-> TRUE, val |-> <<>>]
    /\ pc = "idle"
    /\ savedir = FALSE
    /\ saved = {}
    /\ invoked = {}
    /\ fs_todo = <<>>
    /\ failed = "none"
    /\ raised = "none"

FlxIdle ==
    /\ df = <<>>
    /\ dfint = <<>>
    /\ convert_units = TRUE
    /\ flxpc = "idle"
    /\ outdf = <<>>

CatIdle ==
    /\ flxdir = <<>>
    /\ sc_convert_units = TRUE
    /\ sc_pc = "idle"
    /\ sc_ret = <<>>
    /\ sc_raised = "none"

SldIdle ==
    /\ sld_feedstock = "cc"
    /\ dust_from_file = TRUE
    /\ sld_df = <<>>
    /\ sld_dfint = <<>>
    /\ dfdust0 = <<>>
    /\ sld_pc = "idle"
    /\ sld_ret = <<>>
    /\ sld_raised = "none"

TxtIdle ==
    /\ txt_tokens = <<>>
    /\ txt_lines = <<>>
    /\ map_numeric = TRUE
    /\ txt_pc = "idle"
    /\ txt_ret = <<>>
    /\ txt_raised = "none"

DurIdle ==
    /\ dc_isfile = FALSE
    /\ dc_times = <<>>
    /\ target_duration = 1
    /\ duration_tol = 100
    /\ dc_pc = "idle"
    /\ dc_ret = <<>>

StepsIdle ==
    /\ total_duration = 0
    /\ timestep = 1
    /\ current_time = 0
    /\ timesteparr = <<>>
    /\ ts_pc = "idle"

CompositeIdle ==
    /\ subruns = <<>>
    /\ cmp_todo = <<>>
    /\ composite = <<>>
    /\ cmp_pc = "idle"

SessIdle ==
    /\ rundir = <<>>
    /\ module_dict = <<>>
    /\ defaults = <<>>
    /\ caller = <<>>
    /\ calls = <<>>
    /\ results = <<>>

AuxIdle ==
    /\ TxtIdle
    /\ DurIdle
    /\ StepsIdle
    /\ CompositeIdle
    /\ SessIdle

InitCalc ==
    /\ FlxIdle
    /\ CatIdle
    /\ SldIdle
    /\ AuxIdle
    /\ \E missing \in SUBSET AllFiles :
          /\ Cardinality(missing) <= MaxMissing
          /\ files = AllFiles \ missing
    /\ calc_list \in SUBSET MetricNames
    /\ feedstock \in FeedstockArgs
    /\ pc = "start"
    /\ savedir = FALSE
    /\ saved = {}
    /\ invoked = {}
    /\ fs_todo = <<>>
    /\ failed = "none"
    /\ raised = "none"

\* lines 1061-1065: savehere is created when it does not exist
MakeSaveDir ==
    /\ pc = "start"
    /\ savedir' = TRUE
    /\ pc' = "co2_flx"
    /\ UNCHANGED <<files, calc_list, feedstock, saved, invoked, fs_todo,
                   failed, raised>>
    /\ UNCHANGED <<flxVars, catVars, sldVars, auxVars>>

\* a block that calls one assembler and pickles its result: skipped when the
\* metric is not in calc_list; ends the call when the assembler raises
Block(metric, exc, savenames, next) ==
    /\ pc = metric
    /\ \/ /\ metric \notin calc_list
          /\ pc' = next
          /\ UNCHANGED <<saved, invoked, failed, raised>>
       \/ /\ metric \in calc_list
          /\ exc # "none"
          /\ invoked' = invoked \cup {metric}
          /\ pc' = "raised"
          /\ failed' = metric
          /\ raised' = exc
          /\ UNCHANGED saved
       \/ /\ metric \in calc_list
          /\ exc = "none"
          /\ invoked' = invoked \cup {metric}
          /\ saved' = saved \cup savenames
          /\ pc' = next
          /\ UNCHANGED <<failed, raised>>
    /\ UNCHANGED <<files, calc_list, feedstock, savedir, fs_todo>>
    /\ UNCHANGED <<flxVars, catVars, sldVars, auxVars>>

\* lines 1067-1081
Co2Block ==
    Block("co2_flx", co2_flx_raises(files), {co2_savename}, "carbAlk_adv")

\* lines 1083-1096
CarbAlkBlock ==
    Block("carbAlk_adv", carbAlk_adv_raises(files), {carbAlk_savename},
          "sumCat_adv")

\* lines 1098-1116
SumCatBlock ==
    Block("sumCat_adv", sumCat_adv_raises(files), sumCat_savenames(files),
          "sld_flx")

\* lines 1119-1122: a feedstock that is not a list becomes a one-element list
FeedstockList(arg) == IF arg.list THEN arg.val ELSE <<arg.val>>

\* lines 1118-1122
SldBlock ==
    /\ pc = "sld_flx"
    /\ \/ /\ "sld_flx" \notin calc_list
          /\ pc' = "done"
          /\ UNCHANGED fs_todo
       \/ /\ "sld_flx" \in calc_list
          /\ fs_todo' = FeedstockList(feedstock)
          /\ pc' = "sld_loop"
    /\ UNCHANGED <<files, calc_list, feedstock, savedir, saved, invoked,
                   failed, raised>>
    /\ UNCHANGED <<flxVars, catVars, sldVars, auxVars>>

\* lines 1123-1134: one iteration of `for fs in feedstock`, the call of sld_flx
\* and the pickling of its result
SldLoop ==
    /\ pc = "sld_loop"
    /\ \/ /\ fs_todo = <<>>
          /\ pc' = "done"
          /\ UNCHANGED <<saved, invoked, fs_todo, failed, raised>>
       \/ /\ fs_todo # <<>>
          /\ sld_flx_raises(files, Head(fs_todo)) # "none"
          /\ invoked' = invoked \cup {"sld_flx"}
          /\ pc' = "raised"
          /\ failed' = "sld_flx"
          /\ raised' = sld_flx_raises(files, Head(fs_todo))
          /\ UNCHANGED <<saved, fs_todo>>
       \/ /\ fs_todo # <<>>
          /\ sld_flx_raises(files, Head(fs_todo)) = "none"
          /\ invoked' = invoked \cup {"sld_flx"}
          /\ saved' = saved \cup {sld_savename(Head(fs_todo))}
          /\ fs_todo' = Tail(fs_todo)
          /\ UNCHANGED <<pc, failed, raised>>
    /\ UNCHANGED <<files, calc_list, feedstock, savedir>>
    /\ UNCHANGED <<flxVars, catVars, sldVars, auxVars>>

NextCalc ==
    \/ MakeSaveDir
    \/ Co2Block
    \/ CarbAlkBlock
    \/ SumCatBlock
    \/ SldBlock
    \/ SldLoop

SpecCalc == InitCalc /\ [][NextCalc]_vars

-----------------------------------------------------------------------------
(* Tables.  A table is a sequence of rows; a row is a function from column  *)
(* names to values.  Every row of one input table has the same columns.     *)

Columns(table) == IF table = <<>> THEN {} ELSE DOMAIN table[1]

RECURSIVE SumCols(_, _)
\* df[cols].sum(axis=1) for one row
SumCols(row, cols) ==
    IF cols = {} THEN 0
    ELSE LET c == CHOOSE x \in cols : TRUE
         IN  row[c] + SumCols(row, cols \ {c})

\* the rows of a frame with one more column holding the same label everywhere
WithLabel(table, col, label) ==
    [i \in DOMAIN table |-> table[i] @@ (col :> label)]

\* pd.concat([a, b], axis=0, ignore_index=True): the rows of a, then those of
\* b; a column one frame lacks is NaN in its rows (absent from their DOMAIN)
Concat(a, b) == a \o b

-----------------------------------------------------------------------------
(* Unit conversion.  conv_factor = ton_g * m2_ha = (1/1e6) * 10e3 = 1/100.  *)
(* Molar masses are held in hundredths of g mol-1.  A converted column is   *)
(* an integer count of 1e-5 of its unit (ton ha-1 or g m-2): a flux of x    *)
(* tenths of mol becomes x * 44.01 * 0.01 = x * 4401 * 1e-5 ton ha-1, or    *)
(* x * 44.01 = x * 440100 * 1e-5 g m-2.                                     *)

conv_factor_inv == 100
co2_g_mol == 4401
co2potential_g_mol_sil == 8802
co2potential_g_mol_cc == 4401

\* the factor that would leave a flux in mol as it is (1 over 1e-5)
UnitFactor_unconverted(conv, g_mol) == 100000

\* the factor applied to a column in tenths of mol: g_mol * conv_factor when
\* convert_units, g_mol otherwise (numerator over 1e5)
UnitFactor(conv, g_mol) == IF conv THEN g_mol ELSE g_mol * conv_factor_inv

\* frame.apply(lambda x: x * factor if x.name not in ["time", "units"] else x)
ScaleColumns(table, factor) ==
    [i \in DOMAIN table |->
        [c \in DOMAIN table[i] |->
            IF c \in {"time", "units"} THEN table[i][c]
            ELSE table[i][c] * factor]]

\* the integrated frame left as the file gives it
MultiplyByTime_skipped(table, excluded) == table

\* tdfint.apply(lambda x: x * tdfint["time"] if x.name not in [...] else x):
\* every column but the excluded ones is multiplied by the time of its row
\* (a row whose time is NaN keeps only its excluded columns: x * NaN is NaN)
MultiplyByTime(table, excluded) ==
    [i \in DOMAIN table |->
        [c \in {x \in DOMAIN table[i] :
                    x \in excluded \/ "time" \in DOMAIN table[i]} |->
            IF c \in excluded THEN table[i][c]
            ELSE table[i][c] * table[i]["time"]]]

-----------------------------------------------------------------------------
(* co2_flx *)

runname == "run1"
organic_sp_list == {"g1", "g2", "g3"}
inorganic_sp_list == {"arg", "cc", "dlm"}

\* the advective flux if it were derived from the other terms of the balance
co2flx_adv_from_balance(r) ==
    - r["dif"] - r["tflx"]
    - SumCols(r, organic_sp_list \cap DOMAIN r)
    - SumCols(r, inorganic_sp_list \cap DOMAIN r)

\* lines 338-353: co2flx_adv is the adv column of the file, renamed
co2flx_adv(r) == r["adv"]

co2flx_adv_noinorg_minus(adv, inorg) == adv - inorg

\* lines 373 and 380: tdf["co2flx_adv"] + tdf["co2flx_inorg"]
co2flx_adv_noinorg(adv, inorg) == adv + inorg

\* lines 330-380: the columns of tdf (or tdfint) before the unit conversion,
\* for the arguments organic_sp_list and inorganic_sp_list
co2_components(table, org_list, inorg_list) ==
    LET org_sp == org_list \cap Columns(table)
        inorg_sp == inorg_list \cap Columns(table)
        base(r) == [c \in {"time", "co2flx_dif", "co2flx_tflx", "co2flx_adv"} |->
                       CASE c = "time" -> r["time"]
                         [] c = "co2flx_dif" -> r["dif"]
                         [] c = "co2flx_tflx" -> r["tflx"]
                         [] c = "co2flx_adv" -> co2flx_adv(r)]
        resp(r) == IF org_sp = {} THEN <<>>
                   ELSE [sp \in org_sp |-> r[sp]]
                        @@ ("co2flx_resp" :> SumCols(r, org_sp))
        inorg(r) == IF inorg_sp = {} THEN <<>>
                    ELSE [sp \in inorg_sp |-> r[sp]]
                         @@ ("co2flx_inorg" :> SumCols(r, inorg_sp))
                         @@ ("co2flx_adv_noinorg" :>
                                co2flx_adv_noinorg(co2flx_adv(r),
                                                   SumCols(r, inorg_sp)))
    IN  [i \in DOMAIN table |->
            base(table[i]) @@ resp(table[i]) @@ inorg(table[i])]

\* a conversion to ton/ha whatever convert_units says
co2_convert_always_ton(table, conv, label) ==
    WithLabel(ScaleColumns(table, UnitFactor(TRUE, co2_g_mol)), "units", label)

\* lines 381-405: unit conversion and the units label of each frame
co2_convert(table, conv, label) ==
    WithLabel(ScaleColumns(table, UnitFactor(conv, co2_g_mol)), "units", label)

\* lines 412-416
Tidy(table, flx_type, var) ==
    WithLabel(WithLabel(WithLabel(table, "flx_type", flx_type),
                        "runname", runname), "var", var)

\* co2_flx on the tables d and dint of its two files, with the species lists
\* it is given
co2_flx_with(d, dint, conv, cdvar, org_list, inorg_list) ==
    LET tdf == co2_convert(co2_components(d, org_list, inorg_list), conv,
                           IF conv THEN "ton ha-1 yr-1" ELSE "g m-2 yr-1")
        tdfint0 == co2_convert(co2_components(dint, org_list, inorg_list),
                               conv, IF conv THEN "ton ha-1" ELSE "g m-2")
        \* lines 407-410
        tdfint == MultiplyByTime(tdfint0, {"time", "units"})
    IN  Concat(Tidy(tdf, "flx", cdvar), Tidy(tdfint, "int_flx", cdvar))

\* co2_flx with the species lists of its defaults (lines 260-261), which are
\* also the lists cflx_calc passes (lines 1074-1075)
co2_flx(d, dint, conv, cdvar) ==
    co2_flx_with(d, dint, conv, cdvar, organic_sp_list, inorganic_sp_list)

-----------------------------------------------------------------------------
(* carbAlk_adv *)

\* lines 629-679: tflx, adv, their sum and the four CO2 potentials of a frame;
\* suffix is "tonHaYr"/"tonHa" or "gm2Yr"/"gm2"
\* the components with the diffusive flux added into the total
carbAlk_components_with_dif(table, conv, suffix) ==
    LET sil == UnitFactor(conv, co2potential_g_mol_sil)
        cc == UnitFactor(conv, co2potential_g_mol_cc)
        row(r) ==
            LET tot == r["adv"] + r["tflx"] + r["dif"]
            IN  ("time" :> r["time"])
                @@ ("calkflx_tflx" :> r["tflx"])
                @@ ("calkflx_adv" :> r["adv"])
                @@ ("calkflx_tot" :> tot)
                @@ (("co2pot_adv_" \o suffix \o "_sil") :> r["adv"] * sil)
                @@ (("co2pot_adv_" \o suffix \o "_cc") :> r["adv"] * cc)
                @@ (("co2pot_tot_" \o suffix \o "_sil") :> tot * sil)
                @@ (("co2pot_tot_" \o suffix \o "_cc") :> tot * cc)
    IN  [i \in DOMAIN table |-> row(table[i])]

carbAlk_components(table, conv, suffix) ==
    LET sil == UnitFactor(conv, co2potential_g_mol_sil)
        cc == UnitFactor(conv, co2potential_g_mol_cc)
        row(r) ==
            LET tot == r["adv"] + r["tflx"]
            IN  ("time" :> r["time"])
                @@ ("calkflx_tflx" :> r["tflx"])
                @@ ("calkflx_adv" :> r["adv"])
                @@ ("calkflx_tot" :> tot)
                @@ (("co2pot_adv_" \o suffix \o "_sil") :> r["adv"] * sil)
                @@ (("co2pot_adv_" \o suffix \o "_cc") :> r["adv"] * cc)
                @@ (("co2pot_tot_" \o suffix \o "_sil") :> tot * sil)
                @@ (("co2pot_tot_" \o suffix \o "_cc") :> tot * cc)
    IN  [i \in DOMAIN table |-> row(table[i])]

carbAlk_adv(d, dint, conv, cdvar) ==
    LET tdf == carbAlk_components(d, conv, IF conv THEN "tonHaYr" ELSE "gm2Yr")
        tdfint0 == carbAlk_components(dint, conv, IF conv THEN "tonHa" ELSE "gm2")
        \* lines 681-682
        tdfint == MultiplyByTime(tdfint0, {"time"})
    IN  Concat(Tidy(WithLabel(tdf, "units", "mol m-2 yr"), "flx", cdvar),
               Tidy(WithLabel(tdfint, "units", "mol m-2"), "int_flx", cdvar))

-----------------------------------------------------------------------------
(* Input tables of SpecFlx.  A generated table has n <= MaxRows rows at      *)
(* times 1..n; the cells of its first row are drawn from FlxVals and every   *)
(* flux column rises by one tenth of a mol per row.  ExampleTable is the     *)
(* table of the specification's end-to-end example.                          *)

FlxVals == {-3, 2}

\* the source columns a generated flx_gas / flx_co2sp file may hold
SpeciesSets == {{}, {"g1"}, {"cc"}, {"g1", "cc"}, {"g2", "g3", "arg", "dlm"}}

GenTable(n, first) ==
    [i \in 1..n |->
        [c \in DOMAIN first |->
            IF c = "time" THEN i ELSE first[c] + (i - 1)]]

GenTables ==
    {GenTable(n, [c \in {"time", "dif", "tflx", "adv"} \cup sp |->
                    IF c = "time" THEN 1
                    ELSE IF c \in sp THEN v
                    ELSE base[c]]) :
        n \in 1..MaxRows,
        base \in [{"dif", "tflx", "adv"} -> FlxVals],
        sp \in SpeciesSets,
        v \in FlxVals}

\* time=[1,2,3], dif=[-1,-1,-1], tflx=[0.5,0.4,0.3], adv=[0.4,0.5,0.6],
\* cc=[0.1,0.1,0.1], in tenths
ExampleTable ==
    << [time |-> 1, dif |-> -10, tflx |-> 5, adv |-> 4, cc |-> 1],
       [time |-> 2, dif |-> -10, tflx |-> 4, adv |-> 5, cc |-> 1],
       [time |-> 3, dif |-> -10, tflx |-> 3, adv |-> 6, cc |-> 1] >>

FlxTables == GenTables \cup {ExampleTable}

InitFlx ==
    /\ CalcIdle
    /\ CatIdle
    /\ SldIdle
    /\ AuxIdle
    /\ df \in FlxTables
    /\ dfint \in FlxTables
    /\ convert_units \in BOOLEAN
    /\ flxpc = "ready"
    /\ outdf = <<>>

\* a call co2_flx(outdir, runname, convert_units=...) with the default stem,
\* variable and species lists
CallCo2Flx ==
    /\ flxpc = "ready"
    /\ outdf' = co2_flx(df, dfint, convert_units, "pco2")
    /\ flxpc' = "co2_flx"
    /\ UNCHANGED <<df, dfint, convert_units>>
    /\ UNCHANGED <<calcVars, catVars, sldVars, auxVars>>

\* a call carbAlk_adv(outdir, runname, convert_units=...) with the defaults
CallCarbAlkAdv ==
    /\ flxpc = "ready"
    /\ outdf' = carbAlk_adv(df, dfint, convert_units, "ALK")
    /\ flxpc' = "carbAlk_adv"
    /\ UNCHANGED <<df, dfint, convert_units>>
    /\ UNCHANGED <<calcVars, catVars, sldVars, auxVars>>

NextFlx ==
    \/ CallCo2Flx
    \/ CallCarbAlkAdv

SpecFlx == InitFlx /\ [][NextFlx]_vars

-----------------------------------------------------------------------------
(* build_cation_df.  The cells of a cation file are integer counts of 1e-7  *)
(* mol m-2 yr-1, so that the hard-coded threshold 1e-7 is 1.  The code      *)
(* halves the carbonate source; the model keeps twice the advective and     *)
(* total cation flux, so a co2pot column is an integer count of             *)
(* (1/2) * 1e-4 * 1e-7 ton ha-1 (or g m-2).                                 *)

columns_to_keep == {"time", "adv", "tflx", "res"}
cation_inorganic_sp_list == {"cc", "dlm", "arg"}
negligible_1e7 == 1
co2potential_g_mol == 4401

Abs(x) == IF x < 0 THEN -x ELSE x

\* lines 931-937: a column stays when one of its values exceeds 1e-7 in
\* absolute value or when it is protected
TrimNegligible(table) ==
    LET keep == {c \in Columns(table) :
                    \/ c \in columns_to_keep
                    \/ \E i \in DOMAIN table : Abs(table[i][c]) > negligible_1e7}
    IN  [i \in DOMAIN table |-> [c \in keep |-> table[i][c]]]

\* the source sums and the CO2 potentials with the carbonate source counted
\* in full
cation_components_full_carb(table, noninorg, inorg, ccharge, conv, suffix) ==
    LET factor == ccharge * UnitFactor(conv, co2potential_g_mol)
        row(r) ==
            LET noncarb == SumCols(r, noninorg)
                carb == SumCols(r, inorg)
            IN  r @@ ("noncarbsld_source" :> noncarb)
                  @@ ("carbsld_source" :> carb)
                  @@ (("co2pot_adv_" \o suffix) :>
                         (-2 * r["tflx"] - 2 * noncarb - 2 * carb) * factor)
                  @@ (("co2pot_tot_" \o suffix) :>
                         (-2 * noncarb - 2 * carb) * factor)
    IN  [i \in DOMAIN table |-> row(table[i])]

\* lines 948-1004 for one frame: the two source sums and the CO2 potentials
cation_components(table, noninorg, inorg, ccharge, conv, suffix) ==
    LET factor == ccharge * UnitFactor(conv, co2potential_g_mol)
        row(r) ==
            LET noncarb == SumCols(r, noninorg)
                carb == SumCols(r, inorg)
                adv_cat2 == -2 * r["tflx"] - 2 * noncarb - carb
                tot_cat2 == -2 * noncarb - carb
            IN  r @@ ("noncarbsld_source" :> noncarb)
                  @@ ("carbsld_source" :> carb)
                  @@ (("co2pot_adv_" \o suffix) :> adv_cat2 * factor)
                  @@ (("co2pot_tot_" \o suffix) :> tot_cat2 * factor)
    IN  [i \in DOMAIN table |-> row(table[i])]

\* lines 1006-1013
cation_labels(table, units, flx_type, cation, ccharge) ==
    WithLabel(WithLabel(WithLabel(WithLabel(WithLabel(table,
        "units", units), "flx_type", flx_type), "runname", runname),
        "cation", cation), "charge", ccharge)

\* build_cation_df(runname, cation, ccharge, tmpdf, tmpdfint,
\* negligible_val=..., convert_units=...).  The body never reads
\* negligible_val: the trim at lines 931-937 compares with the literal 1e-7.
build_cation_df_with(cation, ccharge, tmpdf0, tmpdfint0, negligible_val, conv, inorg_list) ==
    LET tmpdf1 == TrimNegligible(tmpdf0)
        tmpdfint1 == TrimNegligible(tmpdfint0)
        \* lines 939-946; noninorg_sources_int is taken against exclude_cols,
        \* the exclusion list of the instantaneous frame
        inorg_sp == inorg_list \cap Columns(tmpdf1)
        inorg_sp_int == inorg_list \cap Columns(tmpdfint1)
        exclude_cols == inorg_sp \cup {"time", "tflx", "adv", "res"}
        noninorg_sources == Columns(tmpdf1) \ exclude_cols
        noninorg_sources_int == Columns(tmpdfint1) \ exclude_cols
        tmpdf == cation_labels(
                    cation_components(tmpdf1, noninorg_sources, inorg_sp,
                        ccharge, conv, IF conv THEN "tonHaYr" ELSE "gm2Yr"),
                    "mol m-2 yr", "flx", cation, ccharge)
        tmpdfint == cation_labels(
                    cation_components(tmpdfint1, noninorg_sources_int,
                        inorg_sp_int, ccharge, conv,
                        IF conv THEN "tonHa" ELSE "gm2"),
                    "mol m-2", "int_flx", cation, ccharge)
    IN  [outdf |-> Concat(tmpdf, tmpdfint), tmpdf |-> tmpdf,
         tmpdfint |-> tmpdfint]

\* build_cation_df with the inorganic_sp_list of its default (line 886)
build_cation_df(cation, ccharge, tmpdf0, tmpdfint0, negligible_val, conv) ==
    build_cation_df_with(cation, ccharge, tmpdf0, tmpdfint0, negligible_val,
                         conv, cation_inorganic_sp_list)

-----------------------------------------------------------------------------
(* sumCat_adv *)

\* find_cations over flx/ as a function
find_cations_in(dir, keys) == find_cations_with(DOMAIN dir, keys)

\* lines 763-807 for one frame: the five columns, the four fluxes times the
\* charge, and the two CO2 potentials under the name sumCat_adv expects
charge_frame(frame, ccharge, suffix) ==
    [i \in DOMAIN frame |->
        LET r == frame[i]
        IN  ("time" :> r["time"])
            @@ ("tflx_charge" :> r["tflx"] * ccharge)
            @@ ("adv_charge" :> r["adv"] * ccharge)
            @@ ("carbsld_source_charge" :> r["carbsld_source"] * ccharge)
            @@ ("noncarbsld_source_charge" :> r["noncarbsld_source"] * ccharge)
            @@ (("co2pot_adv_" \o suffix) :> r["co2pot_adv_" \o suffix])
            @@ (("co2pot_tot_" \o suffix) :> r["co2pot_tot_" \o suffix])]

\* the new cation's frame replacing the running sum
add_cation_overwrite(acc, t) == t

\* lines 815-822: both frames without time are added (pandas aligns on the row
\* index and on the column names; a cell only one side has is NaN), then the
\* time of the new cation's frame is inserted
add_cation(acc, t) ==
    [i \in 1..(IF Len(acc) > Len(t) THEN Len(acc) ELSE Len(t)) |->
        LET cols == IF i <= Len(acc) /\ i <= Len(t)
                    THEN (DOMAIN acc[i] \cap DOMAIN t[i]) \ {"time"}
                    ELSE {}
            summed == [c \in cols |-> acc[i][c] + t[i][c]]
        IN  IF i <= Len(t) /\ "time" \in DOMAIN t[i]
            THEN summed @@ ("time" :> t[i]["time"])
            ELSE summed]

RECURSIVE JoinPlus(_)
\* "+".join(catvars_exist)
JoinPlus(names) ==
    IF names = <<>> THEN ""
    ELSE IF Len(names) = 1 THEN names[1]
    ELSE names[1] \o "+" \o JoinPlus(Tail(names))

RECURSIVE sumCat_loop(_, _, _, _, _, _)
\* lines 750-822: the loop over catvars_exist from position k on; st holds the
\* exception raised so far and the loop's outdf, outdfint and out_dict.
\* build_cation_df is called without convert_units, hence with its default
\* True; with convert_units False lines 803-807 then read a column the frames
\* do not have.  charge is the catvars_charge argument of sumCat_adv,
\* inorg_list the inorganic_sp_list that build_cation_df falls back on.
sumCat_loop(dir, conv, cats, st, charge, inorg_list) ==
    IF cats = <<>> \/ st.exc # "none" THEN st
    ELSE
      LET cat == Head(cats)
          ccharge == charge[cat]
      IN  IF IntFile("flx_aq", cat) \notin DOMAIN dir
          THEN [st EXCEPT !.exc = "FileNotFoundError"]
          ELSE
            LET b == build_cation_df_with(cat, ccharge,
                        dir[FlxFile("flx_aq", cat)],
                        dir[IntFile("flx_aq", cat)], negligible_1e7, TRUE,
                        inorg_list)
                out_dict == st.out_dict @@ (cat :> b.outdf)
            IN  IF ~conv
                THEN [st EXCEPT !.exc = "KeyError", !.out_dict = out_dict]
                ELSE
                  LET tdf == charge_frame(b.tmpdf, ccharge, "tonHaYr")
                      tdfint == charge_frame(b.tmpdfint, ccharge, "tonHa")
                  IN  sumCat_loop(dir, conv, Tail(cats),
                        [exc |-> "none",
                         first |-> FALSE,
                         outdf |-> IF st.first THEN tdf
                                   ELSE add_cation(st.outdf, tdf),
                         outdfint |-> IF st.first THEN tdfint
                                      ELSE add_cation(st.outdfint, tdfint),
                         out_dict |-> out_dict],
                        charge, inorg_list)

\* sumCat_adv(outdir, runname, catvars_charge=..., convert_units=conv) with
\* the default stem, for a registry given by its keys in insertion order and
\* its charges: [exc, outdfx, out_dict]
sumCat_adv_with(dir, conv, keys, charge, inorg_list) ==
    LET catvars_exist == find_cations_in(dir, keys)
        st == sumCat_loop(dir, conv, catvars_exist,
                 [exc |-> "none", first |-> TRUE, outdf |-> <<>>,
                  outdfint |-> <<>>, out_dict |-> <<>>],
                 charge, inorg_list)
        \* lines 824-827
        outdfint == MultiplyByTime(st.outdfint, {"time"})
        var == JoinPlus(catvars_exist)
    IN  IF st.exc # "none" THEN [exc |-> st.exc]
        ELSE IF catvars_exist = <<>> THEN [exc |-> "UnboundLocalError"]
        ELSE [exc |-> "none",
              outdfx |-> Concat(
                  Tidy(WithLabel(st.outdf, "units", "mol m-2 yr x charge"),
                       "flx", var),
                  Tidy(WithLabel(outdfint, "units", "mol m-2 x charge"),
                       "int_flx", var)),
              out_dict |-> st.out_dict]

\* sumCat_adv with the registry of its default (line 701), which is also the
\* registry cflx_calc passes (line 1104)
sumCat_adv(dir, conv) ==
    sumCat_adv_with(dir, conv, catvars_keys, catvars_charge,
                    cation_inorganic_sp_list)

-----------------------------------------------------------------------------
(* Input files of SpecCat: any subset of the eight flx_aq files of the      *)
(* registry cations exists; the files of one run have the same n <= MaxRows *)
(* rows at times 1..n, and row i of a file is i times its first row.        *)

CatFirstRows ==
    { [time |-> 1, tflx |-> 3, adv |-> -2, dif |-> 0, cc |-> 4, gbas |-> -6,
       res |-> 0],
      [time |-> 1, tflx |-> -1, adv |-> 2, dif |-> 1, cc |-> 0, gbas |-> 5,
       res |-> 1] }

CatTable(n, first) ==
    [i \in 1..n |->
        [c \in DOMAIN first |-> IF c = "time" THEN i ELSE first[c] * i]]

CatFileNames ==
    {FlxFile("flx_aq", c) : c \in Range(catvars_keys)}
    \cup {IntFile("flx_aq", c) : c \in Range(catvars_keys)}

InitCat ==
    /\ CalcIdle
    /\ FlxIdle
    /\ SldIdle
    /\ AuxIdle
    /\ \E n \in 1..MaxRows, present \in SUBSET CatFileNames :
          \E first \in [present -> CatFirstRows] :
             flxdir = [f \in present |-> CatTable(n, first[f])]
    /\ sc_convert_units \in BOOLEAN
    /\ sc_pc = "ready"
    /\ sc_ret = <<>>
    /\ sc_raised = "none"

\* a call of sumCat_adv that returns (outdfx, out_dict)
SumCatReturns ==
    /\ sc_pc = "ready"
    /\ sumCat_adv(flxdir, sc_convert_units).exc = "none"
    /\ sc_ret' = [outdfx |-> sumCat_adv(flxdir, sc_convert_units).outdfx,
                  out_dict |-> sumCat_adv(flxdir, sc_convert_units).out_dict]
    /\ sc_pc' = "returned"
    /\ UNCHANGED <<flxdir, sc_convert_units, sc_raised>>
    /\ UNCHANGED <<calcVars, flxVars, sldVars, auxVars>>

\* a call of sumCat_adv that raises
SumCatRaises ==
    /\ sc_pc = "ready"
    /\ sumCat_adv(flxdir, sc_convert_units).exc # "none"
    /\ sc_raised' = sumCat_adv(flxdir, sc_convert_units).exc
    /\ sc_pc' = "raised"
    /\ UNCHANGED <<flxdir, sc_convert_units, sc_ret>>
    /\ UNCHANGED <<calcVars, flxVars, sldVars, auxVars>>

\* the values of the negligible_val argument: the default 1e-7 and 3e-7
NegligibleVals == {negligible_1e7, 3 * negligible_1e7}

\* a direct call build_cation_df(runname, cat, ccharge, tmpdf, tmpdfint,
\* negligible_val=nv, convert_units=sc_convert_units) on the two tables
\* get_data returns for a cation whose files both exist
CallBuildCationDf ==
    /\ sc_pc = "ready"
    /\ \E cat \in Range(catvars_keys), nv \in NegligibleVals :
          /\ FlxFile("flx_aq", cat) \in DOMAIN flxdir
          /\ IntFile("flx_aq", cat) \in DOMAIN flxdir
          /\ sc_ret' = [cation |-> cat,
                        negligible_val |-> nv,
                        outdf |-> build_cation_df(cat, catvars_charge[cat],
                                     flxdir[FlxFile("flx_aq", cat)],
                                     flxdir[IntFile("flx_aq", cat)],
                                     nv, sc_convert_units).outdf]
    /\ sc_pc' = "built"
    /\ UNCHANGED <<flxdir, sc_convert_units, sc_raised>>
    /\ UNCHANGED <<calcVars, flxVars, sldVars, auxVars>>

NextCat ==
    \/ SumCatReturns
    \/ SumCatRaises
    \/ CallBuildCationDf

SpecCat == InitCat /\ [][NextCat]_vars

\* Runs in which the files of ca and of mg are written on time grids of their
\* own: the two files of a cation share its grid, the grids of the two
\* cations may differ in their time values or in their number of rows.
TimeGrids == {<<1, 2>>, <<2, 3>>, <<1>>}

CatTableOn(grid, first) ==
    [i \in DOMAIN grid |->
        [c \in DOMAIN first |->
            IF c = "time" THEN grid[i] ELSE first[c] * grid[i]]]

InitCatGrid ==
    \/ InitCat
    \/ /\ CalcIdle
       /\ FlxIdle
       /\ SldIdle
       /\ AuxIdle
       /\ \E gca \in TimeGrids, gmg \in TimeGrids :
             \E fca \in CatFirstRows, fmg \in CatFirstRows :
                flxdir = (FlxFile("flx_aq", "ca") :> CatTableOn(gca, fca))
                         @@ (IntFile("flx_aq", "ca") :> CatTableOn(gca, fca))
                         @@ (FlxFile("flx_aq", "mg") :> CatTableOn(gmg, fmg))
                         @@ (IntFile("flx_aq", "mg") :> CatTableOn(gmg, fmg))
       /\ sc_convert_units \in BOOLEAN
       /\ sc_pc = "ready"
       /\ sc_ret = <<>>
       /\ sc_raised = "none"

SpecCatGrid == InitCatGrid /\ [][NextCat]_vars

-----------------------------------------------------------------------------
(* sld_flx.  Times are whole years, dust rates whole g m-2 yr-1 and the     *)
(* cells of the flx_sld files whole mol m-2 yr-1.  A cumulative dust        *)
(* integral is held as a count of 1/24 g m-2 (the trapezoid rule halves,    *)
(* the interpolation divides by a gap of up to 4 positions), a mass of the  *)
(* returned table as a count of 1/2400000 ton ha-1 (molar masses have three *)
(* decimals, conv_factor is 0.01).  A NaN cell is a column the row does not *)
(* have; a quotient is the pair [num, den] of its operands, non-finite when *)
(* den = 0.                                                                 *)

\* a table that answers the lookup of bslt with the molar mass of cc
molar_mass_dict_with_default ==
    [cc |-> 100089, gbas |-> 120496, amnt |-> 80043, bslt |-> 100089]

\* molar_mass_dict, in thousandths of g/mol, for the feedstocks of the model
molar_mass_dict == [cc |-> 100089, gbas |-> 120496, amnt |-> 80043]

\* lines 492-506: the first of dustsp1, dustsp2 that names the feedstock in
\* some row selects the dust column; "1" when neither does
dust_dx(dust, fs) ==
    LET columns_with_fs ==
            SelectSeq(<<"dustsp1", "dustsp2">>,
                      LAMBDA col : \E i \in DOMAIN dust : dust[i][col] = fs)
        fscol == IF Len(columns_with_fs) > 0 THEN columns_with_fs[1]
                 ELSE "not found"
    IN  IF fscol = "dustsp1" THEN "1"
        ELSE IF fscol = "dustsp2" THEN "2"
        ELSE "1"

RECURSIVE cumulative_rectangle(_, _, _)
\* the running sum of (x[k+1] - x[k]) * y[k], the rate at the left end of each
\* step taken for the whole step; in 1/24
cumulative_rectangle(y, x, i) ==
    IF i = 1 THEN 0
    ELSE cumulative_rectangle(y, x, i - 1) + 24 * (x[i] - x[i - 1]) * y[i - 1]

RECURSIVE cumulative_trapezoid(_, _, _)
\* scipy.integrate.cumulative_trapezoid(y, x, initial=0) at position i:
\* 0 at the first position, then the running sum of
\* (x[k+1] - x[k]) * (y[k] + y[k+1]) / 2; in 1/24
cumulative_trapezoid(y, x, i) ==
    IF i = 1 THEN 0
    ELSE cumulative_trapezoid(y, x, i - 1)
         + 12 * (x[i] - x[i - 1]) * (y[i - 1] + y[i])

\* lines 509-511: dfdust with its int_dust_g_m2_yr column
with_int_dust(dust, dx) ==
    LET col == "dust" \o dx \o "_g_m2_yr"
        y == [i \in DOMAIN dust |-> dust[i][col]]
        x == [i \in DOMAIN dust |-> dust[i]["time"]]
    IN  [i \in DOMAIN dust |->
            dust[i] @@ ("int_dust_g_m2_yr" :> cumulative_trapezoid(y, x, i))]

\* line 515: drop_duplicates(subset="time", keep="first")
drop_duplicates(table) ==
    SelectSeq([i \in DOMAIN table |-> [row |-> table[i], pos |-> i]],
              LAMBDA e : \A k \in 1..(e.pos - 1) :
                            table[k]["time"] # e.row["time"])

RECURSIVE SortedSeq(_)
\* the members of a set of numbers in ascending order
SortedSeq(S) ==
    IF S = {} THEN <<>>
    ELSE LET m == CHOOSE x \in S : \A y \in S : x <= y
         IN  <<m>> \o SortedSeq(S \ {m})

RECURSIVE merge_rows(_, _, _)
\* the rows of the outer merge for the sorted key values ts: one row per row
\* of left with that time (one row when left has none), carrying the
\* int_dust_g_m2_yr of the right row with that time when there is one
merge_rows(ts, left, right) ==
    IF ts = <<>> THEN <<>>
    ELSE LET t == Head(ts)
             n == Cardinality({i \in DOMAIN left : left[i]["time"] = t})
             hit == {k \in DOMAIN right : right[k].row["time"] = t}
             row == IF hit = {} THEN [time |-> t]
                    ELSE [time |-> t,
                          int_dust_g_m2_yr |->
                              right[CHOOSE k \in hit : TRUE]
                                  .row["int_dust_g_m2_yr"]]
         IN  [k \in 1..(IF n = 0 THEN 1 ELSE n) |-> row]
             \o merge_rows(Tail(ts), left, right)

\* lines 518-520: pd.merge(df, dfdust_nodup, on="time", how="outer"); an outer
\* merge returns its rows sorted by the key
merge_outer(left, right) ==
    merge_rows(SortedSeq({left[i]["time"] : i \in DOMAIN left}
                         \cup {right[k].row["time"] : k \in DOMAIN right}),
               left, right)

\* line 522: Series.interpolate() with its defaults (method="linear",
\* limit_direction="forward"): the values are taken as equally spaced, a NaN
\* between two values is filled on the straight line between them by
\* position, a NaN after the last value is filled with the last value, a NaN
\* before the first value stays
interpolate(table, col) ==
    [j \in DOMAIN table |->
        IF col \in DOMAIN table[j] THEN table[j]
        ELSE LET before == {p \in 1..(j - 1) : col \in DOMAIN table[p]}
                 after == {q \in (j + 1)..Len(table) : col \in DOMAIN table[q]}
             IN  IF before = {} THEN table[j]
                 ELSE LET p == CHOOSE p \in before : \A z \in before : z <= p
                          a == table[p][col]
                      IN  IF after = {} THEN table[j] @@ (col :> a)
                          ELSE LET q == CHOOSE q \in after :
                                            \A z \in after : q <= z
                                   b == table[q][col]
                               IN  table[j] @@
                                   (col :> a + ((b - a) * (j - p)) \div (q - p))]

\* lines 512-531: the integrated dust per row of the target table, in 1/24
\* g m-2; a row without the column stands for NaN
intdust(d, dfdust) ==
    IF Len(dfdust) # Len(d)
    THEN LET dfdust_nodup == drop_duplicates(dfdust)
             df_merged == interpolate(merge_outer(d, dfdust_nodup),
                                      "int_dust_g_m2_yr")
         IN  SelectSeq(df_merged,
                       LAMBDA r : \E i \in DOMAIN d : d[i]["time"] = r["time"])
    ELSE [i \in DOMAIN dfdust |->
             [time |-> dfdust[i]["time"],
              int_dust_g_m2_yr |-> dfdust[i]["int_dust_g_m2_yr"]]]

\* r with column c set to v when ok; when not ok the cell is NaN and the row
\* stays without the column
WithCell(r, c, ok, v) == IF ok THEN r @@ (c :> v) ELSE r

\* a quotient whose zero divisor is replaced by one
Quotient_clamped(a, b) == [num |-> a, den |-> IF b = 0 THEN 1 ELSE b]

\* the quotient a / b as the pair of its operands
Quotient(a, b) == [num |-> a, den |-> b]

\* the share of the applied dust that was not advected
fraction_sld_remaining_gross(int_dust, adv, diss) ==
    Quotient(int_dust - adv, int_dust)

\* lines 555-557
fraction_sld_remaining(int_dust, adv, diss) ==
    Quotient(int_dust - adv - diss, int_dust)

\* lines 543-565 for one row of dfint, with or without an int_dust_ton_ha_yr
\* cell (every value derived from a NaN dust is NaN)
sld_row(r, fs, mm_dict) ==
    LET mm == mm_dict[fs]
        has == "int_dust_ton_ha_yr" \in DOMAIN r
        adv == r["adv"] * mm * 24
        diss == r[fs] * mm * 24
        r1 == WithCell(("time" :> r["time"]) @@ ("adv" :> adv) @@ (fs :> diss),
                       "int_dust_ton_ha_yr", has, r["int_dust_ton_ha_yr"])
        r2 == WithCell(r1, "dust_minus_adv", has,
                       r["int_dust_ton_ha_yr"] - adv)
        r3 == r2 @@ ("total_dissolution" :> diss)
        r4 == WithCell(r3, "fraction_sld_advected", has,
                       Quotient(adv, r["int_dust_ton_ha_yr"]))
        r5 == WithCell(r4, "fraction_sld_remaining", has,
                       fraction_sld_remaining(r["int_dust_ton_ha_yr"], adv,
                                              diss))
        r6 == WithCell(r5, "fraction_remaining_dissolved", has,
                       Quotient(diss, r["int_dust_ton_ha_yr"] - adv))
    IN  WithCell(r6, "fraction_total_dissolved", has,
                 Quotient(diss, r["int_dust_ton_ha_yr"]))

\* sld_flx(outdir, runname, feedstock, dust_from_file=dff,
\* molar_mass_dict=mm_dict) on the tables d and dint of the feedstock's files
\* and the table dust of dust.txt: [exc, tdfint]
sld_flx_with(fs, dff, d, dint, dust, mm_dict) ==
    LET \* line 475
        dfint1 == MultiplyByTime(dint, {"time"})
        dfdust == with_int_dust(dust, dust_dx(dust, fs))
        vals == intdust(d, dfdust)
    IN  IF dff /\ Len(vals) # Len(dfint1)
        THEN [exc |-> "ValueError"]
        ELSE IF fs \notin DOMAIN mm_dict
        THEN [exc |-> "KeyError"]
        ELSE
          LET mm == mm_dict[fs]
              \* lines 533 and 539-541
              dfint2 ==
                [i \in DOMAIN dfint1 |->
                    IF dff
                    THEN IF "int_dust_g_m2_yr" \in DOMAIN vals[i]
                         THEN dfint1[i] @@ ("int_dust_ton_ha_yr" :>
                                  vals[i]["int_dust_g_m2_yr"] * 1000)
                         ELSE dfint1[i]
                    ELSE dfint1[i] @@ ("int_dust_ton_ha_yr" :>
                             -1 * dfint1[i]["rain"] * mm * 24)]
          IN  [exc |-> "none",
               tdfint |-> [i \in DOMAIN dfint2 |->
                              sld_row(dfint2[i], fs, mm_dict)]]

\* sld_flx with the molar_mass_dict of its default (line 429), the module's
\* table
sld_flx(fs, dff, d, dint, dust) ==
    sld_flx_with(fs, dff, d, dint, dust, molar_mass_dict)

-----------------------------------------------------------------------------
(* Input files of SpecSld.  The two flx_sld files share a time grid and     *)
(* hold the same average rates in every row; dust.txt has a grid of its     *)
(* own, possibly with a repeated time, a rate pattern for its first dust    *)
(* column, the constant rate 6 in its second, and names its two species.    *)

SldFeedstocks == {"cc", "gbas", "bslt"}

TargetGrids == {<<0, 1, 2>>, <<1, 2, 4>>, <<2, 3>>, <<0, 4, 5>>}

DustGrids ==
    {<<0, 1, 2>>, <<0, 2>>, <<0, 1, 1, 2>>, <<0, 1, 1>>, <<1, 3>>, <<0, 4>>}

\* the rates of dust1_g_m2_yr by row: none, constant, rising, and a step
\* down after the second row
DustRates == {<<0, 0, 0, 0>>, <<4, 4, 4, 4>>, <<2, 4, 6, 8>>, <<4, 4, 0, 0>>}

DustSpecies == {<<"cc", "gbas">>, <<"gbas", "cc">>, <<"amnt", "cc">>}

SldRates == {[adv |-> 1, fs |-> 2, rain |-> -5, tflx |-> 3],
             [adv |-> 0, fs |-> 3, rain |-> 0, tflx |-> -1]}

SldTable(grid, rates, fs) ==
    [i \in DOMAIN grid |->
        [c \in {"time", "tflx", "adv", "rain", fs} |->
            IF c = "time" THEN grid[i]
            ELSE IF c = fs THEN rates["fs"]
            ELSE rates[c]]]

DustTable(grid, rates, sp) ==
    [i \in DOMAIN grid |->
        [time |-> grid[i], dust1_g_m2_yr |-> rates[i], dust2_g_m2_yr |-> 6,
         dustsp1 |-> sp[1], dustsp2 |-> sp[2]]]

InitSld ==
    /\ CalcIdle
    /\ FlxIdle
    /\ CatIdle
    /\ AuxIdle
    /\ sld_feedstock \in SldFeedstocks
    /\ dust_from_file \in BOOLEAN
    /\ \E grid \in TargetGrids, rates \in SldRates :
          /\ sld_df = SldTable(grid, rates, sld_feedstock)
          /\ sld_dfint = SldTable(grid, rates, sld_feedstock)
    /\ \E grid \in DustGrids, rates \in DustRates, sp \in DustSpecies :
          dfdust0 = DustTable(grid, rates, sp)
    /\ sld_pc = "ready"
    /\ sld_ret = <<>>
    /\ sld_raised = "none"

\* a call of sld_flx that returns its table
SldFlxReturns ==
    /\ sld_pc = "ready"
    /\ sld_flx(sld_feedstock, dust_from_file, sld_df, sld_dfint, dfdust0).exc
          = "none"
    /\ sld_ret' = sld_flx(sld_feedstock, dust_from_file, sld_df, sld_dfint,
                          dfdust0).tdfint
    /\ sld_pc' = "returned"
    /\ UNCHANGED <<sld_feedstock, dust_from_file, sld_df, sld_dfint, dfdust0,
                   sld_raised>>
    /\ UNCHANGED <<calcVars, flxVars, catVars, auxVars>>

\* a call of sld_flx that raises
SldFlxRaises ==
    /\ sld_pc = "ready"
    /\ sld_flx(sld_feedstock, dust_from_file, sld_df, sld_dfint, dfdust0).exc
          # "none"
    /\ sld_raised' = sld_flx(sld_feedstock, dust_from_file, sld_df, sld_dfint,
                             dfdust0).exc
    /\ sld_pc' = "raised"
    /\ UNCHANGED <<sld_feedstock, dust_from_file, sld_df, sld_dfint, dfdust0,
                   sld_ret>>
    /\ UNCHANGED <<calcVars, flxVars, catVars, auxVars>>

NextSld ==
    \/ SldFlxReturns
    \/ SldFlxRaises

SpecSld == InitSld /\ [][NextSld]_vars

-----------------------------------------------------------------------------
(* preprocess_txt.  A line of a file is a sequence of characters; a token   *)
(* of the file stands for one character that is not whitespace, so adjacent *)
(* tokens without whitespace between them read as one word.  A cell of the  *)
(* returned frame is [str |-> s] (a string), [num |-> n] (a number),        *)
(* [nan |-> TRUE] or [none |-> TRUE].                                       *)

\* a file of the model has at most this many lines
MaxLines == 3

IsSpace(c) == c \in {" ", "\t"}

RECURSIVE lstrip(_)
lstrip(line) ==
    IF line # <<>> /\ IsSpace(Head(line)) THEN lstrip(Tail(line)) ELSE line

RECURSIVE rstrip(_)
rstrip(line) ==
    IF line # <<>> /\ IsSpace(line[Len(line)])
    THEN rstrip(SubSeq(line, 1, Len(line) - 1))
    ELSE line

\* line 140: line.strip()
strip(line) == rstrip(lstrip(line))

RECURSIVE split_ws(_, _, _)
\* the words of line after the word cur begun so far; inws: the previous
\* character was whitespace
split_ws(line, cur, inws) ==
    IF line = <<>> THEN <<cur>>
    ELSE IF IsSpace(Head(line))
    THEN IF inws THEN split_ws(Tail(line), cur, TRUE)
         ELSE <<cur>> \o split_ws(Tail(line), "", TRUE)
    ELSE split_ws(Tail(line), cur \o Head(line), FALSE)

\* lines 143 and 147: re.split(r"\s+", line); the empty line gives [""]
re_split(line) == split_ws(line, "", FALSE)

\* the numbers the numeric words of the model parse to
NumericValue == ("1" :> 1) @@ ("2" :> 2) @@ ("5" :> 5) @@ ("7" :> 7)

\* pd.to_numeric of one cell: a numeric string parses, an empty string and
\* None become NaN, any other string raises ValueError
to_numeric_raises(cell) ==
    /\ "str" \in DOMAIN cell
    /\ cell.str # ""
    /\ cell.str \notin DOMAIN NumericValue

to_numeric(cell) ==
    IF "str" \in DOMAIN cell /\ cell.str \in DOMAIN NumericValue
    THEN [num |-> NumericValue[cell.str]]
    ELSE [nan |-> TRUE]

\* line 151: pd.DataFrame(data, columns=column_names).  The rows are padded
\* with None to the longest row; a width other than the number of column
\* names raises ValueError
DataFrame(data, column_names) ==
    LET width == CHOOSE w \in 0..64 :
                    /\ \A i \in DOMAIN data : Len(data[i]) <= w
                    /\ \E i \in DOMAIN data : Len(data[i]) = w
    IN  IF data = <<>>
        THEN [exc |-> "none", columns |-> column_names, rows |-> <<>>]
        ELSE IF width # Len(column_names) THEN [exc |-> "ValueError"]
        ELSE [exc |-> "none", columns |-> column_names,
              rows |-> [i \in DOMAIN data |->
                           [k \in 1..width |->
                               IF k <= Len(data[i]) THEN [str |-> data[i][k]]
                               ELSE [none |-> TRUE]]]]

\* lines 129-156: preprocess_txt on a file with the given lines.  The first
\* line read is the header whatever it holds; a file without lines leaves
\* column_names unbound at line 151
preprocess_txt(lines, numeric) ==
    IF lines = <<>> THEN [exc |-> "UnboundLocalError"]
    ELSE LET column_names == re_split(strip(lines[1]))
             data == [i \in 1..(Len(lines) - 1) |->
                         re_split(strip(lines[i + 1]))]
             df0 == DataFrame(data, column_names)
         IN  IF df0.exc # "none" \/ ~numeric THEN df0
             ELSE IF \E i \in DOMAIN df0.rows : \E k \in DOMAIN df0.rows[i] :
                        to_numeric_raises(df0.rows[i][k])
             THEN [exc |-> "ValueError"]
             ELSE [exc |-> "none", columns |-> df0.columns,
                   rows |-> [i \in DOMAIN df0.rows |->
                                [k \in DOMAIN df0.rows[i] |->
                                    to_numeric(df0.rows[i][k])]]]

-----------------------------------------------------------------------------
(* Input files of SpecTxt: each line is written from a row of words in one  *)
(* of three layouts.                                                        *)

\* the words of a line; the empty row is a blank line
TokenRows == {<<>>, <<"t", "f">>, <<"1", "5">>, <<"2", "7">>, <<"t">>, <<"5">>}

Layouts == {"tight", "padded", "tabbed"}

RECURSIVE Render(_, _)
\* the characters of a line holding the words toks: single blanks between
\* the words (tight), blanks around and two between (padded), or a tab after
\* every word (tabbed)
Render(toks, layout) ==
    IF toks = <<>> THEN (IF layout = "padded" THEN <<" ">> ELSE <<>>)
    ELSE IF layout = "tabbed" THEN <<Head(toks), "\t">> \o Render(Tail(toks), layout)
    ELSE IF layout = "padded"
    THEN <<" ", Head(toks), " ">> \o Render(Tail(toks), layout)
    ELSE IF Len(toks) = 1 THEN <<Head(toks)>>
    ELSE <<Head(toks), " ">> \o Render(Tail(toks), layout)

InitTxt ==
    /\ CalcIdle
    /\ FlxIdle
    /\ CatIdle
    /\ SldIdle
    /\ DurIdle
    /\ StepsIdle
    /\ CompositeIdle
    /\ SessIdle
    /\ \E n \in 0..MaxLines :
          \E toks \in [1..n -> TokenRows], lay \in [1..n -> Layouts] :
              /\ txt_tokens = toks
              /\ txt_lines = [i \in 1..n |-> Render(toks[i], lay[i])]
    /\ map_numeric \in BOOLEAN
    /\ txt_pc = "ready"
    /\ txt_ret = <<>>
    /\ txt_raised = "none"

\* a call of preprocess_txt that returns its frame
PreprocessReturns ==
    /\ txt_pc = "ready"
    /\ preprocess_txt(txt_lines, map_numeric).exc = "none"
    /\ txt_ret' = [columns |-> preprocess_txt(txt_lines, map_numeric).columns,
                   rows |-> preprocess_txt(txt_lines, map_numeric).rows]
    /\ txt_pc' = "returned"
    /\ UNCHANGED <<txt_tokens, txt_lines, map_numeric, txt_raised>>
    /\ UNCHANGED <<calcVars, flxVars, catVars, sldVars>>
    /\ UNCHANGED <<durVars, tsVars, cmpVars, sessVars>>

\* a call of preprocess_txt that raises
PreprocessRaises ==
    /\ txt_pc = "ready"
    /\ preprocess_txt(txt_lines, map_numeric).exc # "none"
    /\ txt_raised' = preprocess_txt(txt_lines, map_numeric).exc
    /\ txt_pc' = "raised"
    /\ UNCHANGED <<txt_tokens, txt_lines, map_numeric, txt_ret>>
    /\ UNCHANGED <<calcVars, flxVars, catVars, sldVars>>
    /\ UNCHANGED <<durVars, tsVars, cmpVars, sessVars>>

NextTxt ==
    \/ PreprocessReturns
    \/ PreprocessRaises

SpecTxt == InitTxt /\ [][NextTxt]_vars

-----------------------------------------------------------------------------
(* cflx_calc with its arguments dust_from_file and convert_units, and with  *)
(* the tables its sumCat_adv and sld_flx blocks compute (SpecForward).      *)
(* Here dust_from_file and convert_units hold the arguments of cflx_calc;   *)
(* files tells whether dust.txt exists, flxdir holds the cation files and   *)
(* sld_df, sld_dfint, dfdust0 the tables of the feedstock's files and of    *)
(* dust.txt (when it exists).                                              *)

InitForward ==
    /\ AuxIdle
    /\ df = <<>>
    /\ dfint = <<>>
    /\ flxpc = "idle"
    /\ outdf = <<>>
    /\ convert_units \in BOOLEAN
    /\ dust_from_file \in BOOLEAN
    /\ files \in {AllFiles, AllFiles \ {"dust.txt"}}
    /\ calc_list = {"sumCat_adv", "sld_flx"}
    /\ feedstock \in {[list |-> FALSE, val |-> f] : f \in FeedstockIds}
    /\ pc = "sumCat_adv"
    /\ savedir = TRUE
    /\ saved = {}
    /\ invoked = {}
    /\ fs_todo = <<>>
    /\ failed = "none"
    /\ raised = "none"
    /\ \E first \in CatFirstRows :
          flxdir = (FlxFile("flx_aq", "ca") :> CatTable(MaxRows, first))
                   @@ (IntFile("flx_aq", "ca") :> CatTable(MaxRows, first))
    /\ sc_convert_units = TRUE
    /\ sc_pc = "ready"
    /\ sc_ret = <<>>
    /\ sc_raised = "none"
    /\ sld_feedstock = feedstock.val
    /\ \E grid \in TargetGrids, rates \in SldRates :
          /\ sld_df = SldTable(grid, rates, sld_feedstock)
          /\ sld_dfint = SldTable(grid, rates, sld_feedstock)
    /\ \E grid \in DustGrids, rates \in DustRates, sp \in DustSpecies :
          dfdust0 = DustTable(grid, rates, sp)
    /\ sld_pc = "ready"
    /\ sld_ret = <<>>
    /\ sld_raised = "none"

\* lines 1098-1116: sumCat_adv is called with convert_units=True whatever
\* cflx_calc was given, and its tables are pickled
ForwardSumCat ==
    /\ pc = "sumCat_adv"
    /\ LET r == sumCat_adv(flxdir, TRUE)
       IN  IF r.exc # "none"
           THEN /\ pc' = "raised"
                /\ failed' = "sumCat_adv"
                /\ raised' = r.exc
                /\ sc_pc' = "raised"
                /\ sc_raised' = r.exc
                /\ UNCHANGED <<saved, sc_ret>>
           ELSE /\ pc' = "sld_flx"
                /\ sc_pc' = "returned"
                /\ sc_ret' = [outdfx |-> r.outdfx, out_dict |-> r.out_dict]
                /\ saved' = saved \cup {"cationflx_sum.pkl"}
                               \cup {"cationflx_" \o name \o ".pkl" :
                                        name \in DOMAIN r.out_dict}
                /\ UNCHANGED <<failed, raised, sc_raised>>
    /\ invoked' = invoked \cup {"sumCat_adv"}
    /\ UNCHANGED <<files, calc_list, feedstock, savedir, fs_todo>>
    /\ UNCHANGED <<flxdir, sc_convert_units>>
    /\ UNCHANGED <<flxVars, sldVars, auxVars>>

\* lines 1118-1134 for a single feedstock: sld_flx is called with
\* dust_from_file=True whatever cflx_calc was given, so it opens dust.txt
ForwardSld ==
    /\ pc = "sld_flx"
    /\ LET exc == IF sld_flx_raises(files, sld_feedstock) # "none"
                  THEN sld_flx_raises(files, sld_feedstock)
                  ELSE sld_flx(sld_feedstock, TRUE, sld_df, sld_dfint,
                               dfdust0).exc
       IN  IF exc # "none"
           THEN /\ pc' = "raised"
                /\ failed' = "sld_flx"
                /\ raised' = exc
                /\ sld_pc' = "raised"
                /\ sld_raised' = exc
                /\ UNCHANGED <<saved, sld_ret>>
           ELSE /\ pc' = "done"
                /\ sld_pc' = "returned"
                /\ sld_ret' = sld_flx(sld_feedstock, TRUE, sld_df, sld_dfint,
                                      dfdust0).tdfint
                /\ saved' = saved \cup {sld_savename(sld_feedstock)}
                /\ UNCHANGED <<failed, raised, sld_raised>>
    /\ invoked' = invoked \cup {"sld_flx"}
    /\ UNCHANGED <<files, calc_list, feedstock, savedir, fs_todo>>
    /\ UNCHANGED <<sld_feedstock, dust_from_file, sld_df, sld_dfint, dfdust0>>
    /\ UNCHANGED <<flxVars, catVars, auxVars>>

NextForward ==
    \/ ForwardSumCat
    \/ ForwardSld

SpecForward == InitForward /\ [][NextForward]_vars

-----------------------------------------------------------------------------
(* duration_check.  Times and durations are whole thousandths of a year and *)
(* duration_tol is in thousandths of a percent: the whole number v stands   *)
(* for the double the decimal v / 1000 denotes, and diff_percent is         *)
(* computed on those doubles as the interpreter does, each operation        *)
(* rounded to the nearest double.  target_duration is positive.             *)

RECURSIVE SeqMax(_)
\* df["time"].values.max()
SeqMax(s) ==
    IF Len(s) = 1 THEN s[1]
    ELSE LET m == SeqMax(Tail(s)) IN IF s[1] > m THEN s[1] ELSE m

\* ---- IEEE-754 double arithmetic of lines 430-431.  A natural number of any
\* size is the sequence of its base-10000 digits, lowest first (<<>> is 0);
\* a double is [s, n, e], the number s * n * 2^e with s in {-1, 0, 1} and,
\* unless s = 0, a 53-bit n.  Overflow, subnormals and NaN do not arise for
\* the durations of a run.

BigNat == Seq(0..9999)

Float == [s : {-1, 0, 1}, n : BigNat, e : Int]

FloatZero == [s |-> 0, n |-> <<>>, e |-> 0]

BigNorm[x \in BigNat] ==
    IF x # <<>> /\ x[Len(x)] = 0 THEN BigNorm[SubSeq(x, 1, Len(x) - 1)] ELSE x

BigOf[v \in Nat] == IF v = 0 THEN <<>> ELSE <<v % 10000>> \o BigOf[v \div 10000]

BigMulCarry[x \in BigNat, k \in Nat, carry \in Nat] ==
    IF x = <<>> THEN BigOf[carry]
    ELSE <<(Head(x) * k + carry) % 10000>>
         \o BigMulCarry[Tail(x), k, (Head(x) * k + carry) \div 10000]

\* x * k for a small k
BigMulSmall[x \in BigNat, k \in Nat] == BigNorm[BigMulCarry[x, k, 0]]

BigCmpAt[x \in BigNat, y \in BigNat, i \in Nat] ==
    IF i = 0 THEN 0
    ELSE IF x[i] # y[i] THEN (IF x[i] < y[i] THEN -1 ELSE 1)
    ELSE BigCmpAt[x, y, i - 1]

\* -1, 0 or 1 as x <, =, > y
BigCmp[x \in BigNat, y \in BigNat] ==
    IF Len(x) # Len(y) THEN (IF Len(x) < Len(y) THEN -1 ELSE 1)
    ELSE BigCmpAt[x, y, Len(x)]

BigAddCarry[x \in BigNat, y \in BigNat, carry \in Nat] ==
    IF x = <<>> /\ y = <<>> THEN BigOf[carry]
    ELSE IF x = <<>> THEN BigAddCarry[y, x, carry]
    ELSE IF y = <<>>
    THEN <<(Head(x) + carry) % 10000>>
         \o BigAddCarry[Tail(x), y, (Head(x) + carry) \div 10000]
    ELSE <<(Head(x) + Head(y) + carry) % 10000>>
         \o BigAddCarry[Tail(x), Tail(y),
                        (Head(x) + Head(y) + carry) \div 10000]

BigAdd[x \in BigNat, y \in BigNat] == BigAddCarry[x, y, 0]

BigSubBorrow[x \in BigNat, y \in BigNat, borrow \in Nat] ==
    IF x = <<>> THEN <<>>
    ELSE IF y = <<>>
    THEN <<(Head(x) - borrow + 10000) % 10000>>
         \o BigSubBorrow[Tail(x), y, IF Head(x) - borrow < 0 THEN 1 ELSE 0]
    ELSE <<(Head(x) - Head(y) - borrow + 10000) % 10000>>
         \o BigSubBorrow[Tail(x), Tail(y),
                         IF Head(x) - Head(y) - borrow < 0 THEN 1 ELSE 0]

\* x - y for x >= y
BigSub[x \in BigNat, y \in BigNat] == BigNorm[BigSubBorrow[x, y, 0]]

\* x * 2^k
BigShl[x \in BigNat, k \in Nat] ==
    IF k > 12 THEN BigShl[BigMulSmall[x, 4096], k - 12]
    ELSE BigMulSmall[x, 2 ^ k]

\* a, x and k with 2^52 <= (a / x) * 2^52 < 2^53, reached by doubling a (k
\* counts up) or x (k counts down), twelve doublings at a time while that
\* does not overshoot
RoundScale[a \in BigNat, x \in BigNat, k \in Int] ==
    IF BigCmp[BigMulSmall[a, 4096], x] < 0
    THEN RoundScale[BigMulSmall[a, 4096], x, k + 12]
    ELSE IF BigCmp[a, x] < 0 THEN RoundScale[BigMulSmall[a, 2], x, k + 1]
    ELSE IF BigCmp[a, BigMulSmall[x, 8192]] >= 0
    THEN RoundScale[a, BigMulSmall[x, 4096], k - 12]
    ELSE IF BigCmp[a, BigMulSmall[x, 2]] >= 0
    THEN RoundScale[a, BigMulSmall[x, 2], k - 1]
    ELSE [a |-> a, x |-> x, k |-> k]

\* the next binary digit of r / x appended to q, of i still to come
RoundDigits[q \in BigNat, r \in BigNat, x \in BigNat, i \in Nat] ==
    IF i = 0 THEN [q |-> q, r |-> r]
    ELSE IF BigCmp[r, x] >= 0
    THEN RoundDigits[BigAdd[BigMulSmall[q, 2], <<1>>],
                     BigMulSmall[BigSub[r, x], 2], x, i - 1]
    ELSE RoundDigits[BigMulSmall[q, 2], BigMulSmall[r, 2], x, i - 1]

\* the 53 digits q rounded to nearest, ties to the even q, given what was
\* left of the dividend
RoundUp[q \in BigNat, r \in BigNat, x \in BigNat, e \in Int] ==
    IF BigCmp[r, x] > 0 \/ (BigCmp[r, x] = 0 /\ q[1] % 2 = 1)
    THEN IF BigCmp[BigAdd[q, <<1>>], BigShl[<<1>>, 53]] = 0
         THEN [s |-> 1, n |-> BigShl[<<1>>, 52], e |-> e + 1]
         ELSE [s |-> 1, n |-> BigAdd[q, <<1>>], e |-> e]
    ELSE [s |-> 1, n |-> q, e |-> e]

RoundScaled[a \in BigNat, x \in BigNat, e \in Int] ==
    RoundUp[RoundDigits[<<>>, a, x, 53].q, RoundDigits[<<>>, a, x, 53].r, x, e]

\* the double nearest to (a / b) * 2^e for natural numbers a and b > 0
RoundNearest[a \in BigNat, b \in BigNat, e \in Int] ==
    IF a = <<>> THEN FloatZero
    ELSE RoundScaled[RoundScale[a, BigShl[b, 52], 0].a,
                     RoundScale[a, BigShl[b, 52], 0].x,
                     e - RoundScale[a, BigShl[b, 52], 0].k]

Sign(v) == IF v < 0 THEN -1 ELSE IF v > 0 THEN 1 ELSE 0

WithSign[x \in Float, s \in {-1, 0, 1}] == [x EXCEPT !.s = s]

\* the double a decimal text or literal num / den denotes
FloatOf[num \in Int, den \in Nat] ==
    WithSign[RoundNearest[BigOf[Abs(num)], BigOf[den], 0], Sign(num)]

\* -1, 0 or 1 as |x| <, =, > |y| for doubles other than zero
FloatCmpMag[x \in Float, y \in Float] ==
    IF x.e # y.e THEN (IF x.e < y.e THEN -1 ELSE 1) ELSE BigCmp[x.n, y.n]

\* x < y
FloatLess[x \in Float, y \in Float] ==
    IF x.s # y.s THEN x.s < y.s
    ELSE IF x.s = 0 THEN FALSE
    ELSE IF x.s = 1 THEN FloatCmpMag[x, y] < 0
    ELSE FloatCmpMag[x, y] > 0

\* s * (ax - ay) * 2^e for ax, ay other than zero, rounded
FloatDiff[ax \in BigNat, ay \in BigNat, e \in Int, s \in {-1, 1}] ==
    IF BigCmp[ax, ay] = 0 THEN FloatZero
    ELSE IF BigCmp[ax, ay] > 0
    THEN WithSign[RoundNearest[BigSub[ax, ay], <<1>>, e], s]
    ELSE WithSign[RoundNearest[BigSub[ay, ax], <<1>>, e], -1 * s]

\* x - y
FloatSub[x \in Float, y \in Float] ==
    IF y.s = 0 THEN x
    ELSE IF x.s = 0 THEN WithSign[y, -1 * y.s]
    ELSE IF x.e < y.e
    THEN IF x.s # y.s
         THEN WithSign[RoundNearest[BigAdd[x.n, BigShl[y.n, y.e - x.e]],
                                    <<1>>, x.e], x.s]
         ELSE FloatDiff[x.n, BigShl[y.n, y.e - x.e], x.e, x.s]
    ELSE IF x.s # y.s
         THEN WithSign[RoundNearest[BigAdd[BigShl[x.n, x.e - y.e], y.n],
                                    <<1>>, y.e], x.s]
         ELSE FloatDiff[BigShl[x.n, x.e - y.e], y.n, y.e, x.s]

\* x / y for y other than zero
FloatDiv[x \in Float, y \in Float] ==
    IF x.s = 0 THEN FloatZero
    ELSE WithSign[RoundNearest[x.n, y.n, x.e - y.e], x.s * y.s]

\* x * k for a whole number k > 0
FloatTimes[x \in Float, k \in Nat] ==
    IF x.s = 0 THEN FloatZero
    ELSE WithSign[RoundNearest[BigMulSmall[x.n, k], <<1>>, x.e], x.s]

\* line 430: ((model_duration - target_duration) / target_duration) * 100
diff_percent(model_duration, target) ==
    FloatTimes[FloatDiv[FloatSub[FloatOf[model_duration, 1000],
                                 FloatOf[target, 1000]],
                        FloatOf[target, 1000]], 100]

\* line 431: diff_percent < duration_tol
diff_below_tol(model_duration, target, tol) ==
    FloatLess[diff_percent(model_duration, target), FloatOf[tol, 1000]]

\* lines 424-440: [exc, diff_result, dur_list]; max() of an empty time
\* column raises ValueError
duration_check(isfile, times, target, tol) ==
    IF isfile
    THEN IF times = <<>> THEN [exc |-> "ValueError"]
         ELSE LET model_duration == SeqMax(times)
              IN  [exc |-> "none",
                   diff_result |->
                       [bool |-> diff_below_tol(model_duration, target, tol)],
                   dur_list |-> <<[num |-> target], [num |-> model_duration]>>]
    ELSE [exc |-> "none",
          diff_result |->
              [str |-> "could not complete check; file flx_aq-ca.txt not found"],
          dur_list |-> <<[str |-> "NA"], [str |-> "NA"]>>]

\* the time columns of the checked file: a header alone, runs that stop
\* short of, at, or past their target (2.002, 3.003 and 10.01 years are 0.1
\* percent past 2, 3 and 10 years), and rows out of order
TimeColumns ==
    {<<>>, <<500>>, <<500, 1000>>, <<1000, 999>>, <<1000, 2000>>,
     <<1000, 2001>>, <<1000, 2002>>, <<1000, 2003>>, <<2000, 3003>>,
     <<2000, 4000, 5000>>, <<2000, 4000, 9990>>, <<5000, 10000>>,
     <<5000, 10005>>, <<5000, 10010>>, <<5000, 10020>>}

TargetDurations == {1000, 2000, 3000, 10000}

\* 0.1 percent (the default) and 5 percent
DurationTols == {100, 5000}

InitDur ==
    /\ CalcIdle
    /\ FlxIdle
    /\ CatIdle
    /\ SldIdle
    /\ TxtIdle
    /\ StepsIdle
    /\ CompositeIdle
    /\ SessIdle
    /\ dc_isfile \in BOOLEAN
    /\ dc_times \in (IF dc_isfile THEN TimeColumns ELSE {<<>>})
    /\ target_duration \in TargetDurations
    /\ duration_tol \in DurationTols
    /\ dc_pc = "ready"
    /\ dc_ret = <<>>

\* a call of duration_check on an existing file that returns
DurationCheckReturns ==
    /\ dc_pc = "ready"
    /\ dc_isfile
    /\ LET r == duration_check(dc_isfile, dc_times, target_duration,
                               duration_tol)
       IN  /\ r.exc = "none"
           /\ dc_ret' = [diff_result |-> r.diff_result, dur_list |-> r.dur_list]
    /\ dc_pc' = "returned"
    /\ UNCHANGED <<dc_isfile, dc_times, target_duration, duration_tol>>
    /\ UNCHANGED <<calcVars, flxVars, catVars, sldVars>>
    /\ UNCHANGED <<txtVars, tsVars, cmpVars, sessVars>>

\* a call of duration_check when the file does not exist
DurationCheckMissing ==
    /\ dc_pc = "ready"
    /\ ~dc_isfile
    /\ LET r == duration_check(dc_isfile, dc_times, target_duration,
                               duration_tol)
       IN  dc_ret' = [diff_result |-> r.diff_result, dur_list |-> r.dur_list]
    /\ dc_pc' = "returned"
    /\ UNCHANGED <<dc_isfile, dc_times, target_duration, duration_tol>>
    /\ UNCHANGED <<calcVars, flxVars, catVars, sldVars>>
    /\ UNCHANGED <<txtVars, tsVars, cmpVars, sessVars>>

\* a call of duration_check that raises
DurationCheckRaises ==
    /\ dc_pc = "ready"
    /\ duration_check(dc_isfile, dc_times, target_duration, duration_tol).exc
          # "none"
    /\ dc_pc' = "raised"
    /\ UNCHANGED <<dc_isfile, dc_times, target_duration, duration_tol, dc_ret>>
    /\ UNCHANGED <<calcVars, flxVars, catVars, sldVars>>
    /\ UNCHANGED <<txtVars, tsVars, cmpVars, sessVars>>

NextDur ==
    \/ DurationCheckReturns
    \/ DurationCheckMissing
    \/ DurationCheckRaises

SpecDur == InitDur /\ [][NextDur]_vars

-----------------------------------------------------------------------------
(* generate_timesteps, one loop iteration per step (SpecSteps).  Durations  *)
(* are whole numbers of the unit the caller counts in.                      *)

\* the memory of the process holds a list of at most this many start times;
\* every call of the model with a positive timestep needs fewer
MaxSteps == 8

Durations == -2..6

Timesteps == -1..3

InitSteps ==
    /\ CalcIdle
    /\ FlxIdle
    /\ CatIdle
    /\ SldIdle
    /\ TxtIdle
    /\ DurIdle
    /\ CompositeIdle
    /\ SessIdle
    /\ total_duration \in Durations
    /\ timestep \in Timesteps
    \* lines 203-204
    /\ timesteparr = <<>>
    /\ current_time = 0
    /\ ts_pc = "loop"

\* lines 205-207: the loop condition holds and the body runs once
LoopBody ==
    /\ ts_pc = "loop"
    /\ Len(timesteparr) < MaxSteps
    /\ current_time <= total_duration - timestep
    /\ timesteparr' = Append(timesteparr, current_time)
    /\ current_time' = current_time + timestep
    /\ UNCHANGED <<total_duration, timestep, ts_pc>>
    /\ UNCHANGED <<calcVars, flxVars, catVars, sldVars>>
    /\ UNCHANGED <<txtVars, durVars, cmpVars, sessVars>>

\* lines 205 and 208: the loop condition fails and the list is returned
LoopExit ==
    /\ ts_pc = "loop"
    /\ ~(current_time <= total_duration - timestep)
    /\ ts_pc' = "returned"
    /\ UNCHANGED <<total_duration, timestep, current_time, timesteparr>>
    /\ UNCHANGED <<calcVars, flxVars, catVars, sldVars>>
    /\ UNCHANGED <<txtVars, durVars, cmpVars, sessVars>>

\* line 206 with the memory exhausted: the loop condition still holds, the
\* append raises MemoryError and the call ends without returning
LoopOverflow ==
    /\ ts_pc = "loop"
    /\ Len(timesteparr) = MaxSteps
    /\ current_time <= total_duration - timestep
    /\ ts_pc' = "MemoryError"
    /\ UNCHANGED <<total_duration, timestep, current_time, timesteparr>>
    /\ UNCHANGED <<calcVars, flxVars, catVars, sldVars>>
    /\ UNCHANGED <<txtVars, durVars, cmpVars, sessVars>>

NextSteps ==
    \/ LoopBody
    \/ LoopExit
    \/ LoopOverflow

SpecSteps == InitSteps /\ [][NextSteps]_vars

\* the interpreter keeps executing the function until it returns
SpecStepsFair == SpecSteps /\ WF_vars(NextSteps)

-----------------------------------------------------------------------------
(* build_composite for the field runs and one flx file (SpecComposite).  A  *)
(* directory name is a sequence of characters; times and start years are    *)
(* whole tenths of a year; a line of the composite file is Header or a row  *)
(* [time, tflx], tflx holding the row's time within its own sub-run.        *)

DigitChars == <<"0", "1", "2", "3", "4", "5", "6", "7", "8", "9">>

Letters == <<"a", "b", "c", "d", "e", "f", "g", "h", "i", "j", "k", "l", "m",
             "n", "o", "p", "q", "r", "s", "t", "u", "v", "w", "x", "y", "z">>

IsDigit(c) == c \in Range(DigitChars)

DigitValue(c) == (CHOOSE i \in DOMAIN DigitChars : DigitChars[i] = c) - 1

\* the code point of a character of a directory name
ord(c) ==
    IF IsDigit(c) THEN 48 + DigitValue(c)
    ELSE IF c = "-" THEN 45
    ELSE IF c = "_" THEN 95
    ELSE 96 + (CHOOSE i \in DOMAIN Letters : Letters[i] = c)

RECURSIVE str_lt(_, _)
\* a < b for two Python strings
str_lt(a, b) ==
    IF b = <<>> THEN FALSE
    ELSE IF a = <<>> THEN TRUE
    ELSE IF ord(Head(a)) # ord(Head(b)) THEN ord(Head(a)) < ord(Head(b))
    ELSE str_lt(Tail(a), Tail(b))

RECURSIVE sorted(_)
\* sorted() of a collection of distinct strings
sorted(S) ==
    IF S = {} THEN <<>>
    ELSE LET m == CHOOSE x \in S : \A y \in S : x = y \/ str_lt(x, y)
         IN  <<m>> \o sorted(S \ {m})

\* s[i-1:j] of a Python string, which stops at the end of s
Slice(s, i, j) ==
    [k \in 1..((IF j > Len(s) THEN Len(s) ELSE j) - i + 1) |-> s[i + k - 1]]

\* w in s
Contains(s, w) ==
    \E i \in 1..(Len(s) - Len(w) + 1) : SubSeq(s, i, i + Len(w) - 1) = w

RECURSIVE DigitRun(_, _)
\* the number of digits of s from position i on
DigitRun(s, i) ==
    IF i <= Len(s) /\ IsDigit(s[i]) THEN 1 + DigitRun(s, i + 1) ELSE 0

RECURSIVE IntValue(_)
\* the number a run of digits denotes
IntValue(ds) ==
    IF ds = <<>> THEN 0
    ELSE IntValue(SubSeq(ds, 1, Len(ds) - 1)) * 10 + DigitValue(ds[Len(ds)])

RECURSIVE Digits(_)
\* str(n) for n >= 0
Digits(n) ==
    IF n < 10 THEN <<DigitChars[n + 1]>>
    ELSE Digits(n \div 10) \o <<DigitChars[(n % 10) + 1]>>

startyear_word == <<"s", "t", "a", "r", "t", "y", "e", "a", "r", "-">>
iter_word == <<"_", "i", "t", "e", "r", "-">>
composite_word == <<"c", "o", "m", "p", "o", "s", "i", "t", "e">>
field_word == <<"_", "f", "i", "e", "l", "d">>

\* r"startyear-(\d+)(p\d+)?_iter-(\d+)" tried at position i of s:
\* [ok, g1, g2, g3] with g2 = <<>> for a group that did not take part
match_at(s, i) ==
    LET a == i + Len(startyear_word)
        d1 == DigitRun(s, a)
        b == a + d1
        dp == IF b <= Len(s) /\ s[b] = "p" THEN DigitRun(s, b + 1) ELSE 0
        c == IF dp > 0 THEN b + 1 + dp ELSE b
        e == c + Len(iter_word)
        d3 == DigitRun(s, e)
    IN  IF /\ Slice(s, i, a - 1) = startyear_word
           /\ d1 > 0
           /\ Slice(s, c, e - 1) = iter_word
           /\ d3 > 0
        THEN [ok |-> TRUE, g1 |-> Slice(s, a, b - 1),
              g2 |-> Slice(s, b, c - 1), g3 |-> Slice(s, e, e + d3 - 1)]
        ELSE [ok |-> FALSE]

\* re.search(pattern, s): the leftmost match
re_search(s) ==
    LET hits == {i \in 1..Len(s) : match_at(s, i).ok}
    IN  IF hits = {} THEN [ok |-> FALSE]
        ELSE match_at(s, CHOOSE i \in hits : \A j \in hits : i <= j)

\* lines 100-108 and float(startyear_tmp), in tenths of a year (the names of
\* the model carry at most one digit after the p)
startyear_of(m) ==
    IntValue(m.g1) * 10
    + (IF m.g2 = <<>> THEN 0 ELSE DigitValue(m.g2[2]))

RECURSIVE sort_values(_)
\* dfsrc.sort_values(by="time") on rows with distinct times
sort_values(rows) ==
    IF rows = <<>> THEN <<>>
    ELSE LET i == CHOOSE i \in DOMAIN rows :
                      \A j \in DOMAIN rows : rows[i].time <= rows[j].time
         IN  <<rows[i]>> \o sort_values([k \in 1..(Len(rows) - 1) |->
                                 IF k < i THEN rows[k] ELSE rows[k + 1]])

Header == [header |-> TRUE]

\* lines 192-196: the time column shifted by the start year, rows by time
shifted_rows(rows, startyear) ==
    sort_values([i \in DOMAIN rows |->
                    [time |-> rows[i].time + startyear, tflx |-> rows[i].tflx]])

\* lines 199-210: appended without a header to an existing file, written
\* with one otherwise
to_csv_append(file, rows) ==
    IF file # <<>> THEN file \o rows ELSE <<Header>> \o rows

\* lines 70-73: the directories of outdir naming the base, sorted, without
\* those whose name contains "composite"
alldirs_of(names) ==
    SelectSeq(sorted(names), LAMBDA path : ~Contains(path, composite_word))

-----------------------------------------------------------------------------
(* Inputs of SpecComposite: up to MaxSubruns sub-runs of base "r" whose     *)
(* iteration index counts them by start year, each with the same rows in    *)
(* its flx file and shorter than the gap to the next start; the composite   *)
(* directory and its flx file may exist from an earlier build.              *)

MaxSubruns == 3

\* 0, 1, 1.5, 2, 2.5 and 10 years: [whole, frac] with frac -1 for none
StartYears ==
    {[whole |-> 0, frac |-> -1], [whole |-> 1, frac |-> -1],
     [whole |-> 1, frac |-> 5], [whole |-> 2, frac |-> -1],
     [whole |-> 2, frac |-> 5], [whole |-> 10, frac |-> -1]}

YearTenths(y) == y.whole * 10 + (IF y.frac < 0 THEN 0 ELSE y.frac)

\* the time columns of a sub-run's flx file, as written by the model
SubrunTimes == {<<1, 4>>, <<4, 1>>, <<3>>}

base_word == <<"r">>

RunName(y, iter) ==
    base_word \o <<"_">> \o startyear_word \o Digits(y.whole)
    \o (IF y.frac < 0 THEN <<>> ELSE <<"p">> \o Digits(y.frac))
    \o iter_word \o Digits(iter) \o field_word

CompositeName == base_word \o <<"_">> \o composite_word \o field_word

\* the position of y among the start years ys, from 0
IterOf(y, ys) == Cardinality({z \in ys : YearTenths(z) < YearTenths(y)})

InitComposite ==
    /\ CalcIdle
    /\ FlxIdle
    /\ CatIdle
    /\ SldIdle
    /\ TxtIdle
    /\ DurIdle
    /\ StepsIdle
    /\ SessIdle
    /\ \E ys \in SUBSET StartYears, times \in SubrunTimes :
          /\ ys # {}
          /\ Cardinality(ys) <= MaxSubruns
          /\ subruns = [n \in {RunName(y, IterOf(y, ys)) : y \in ys} |->
                           [i \in DOMAIN times |->
                               [time |-> times[i], tflx |-> times[i]]]]
    /\ composite \in {<<>>, <<Header, [time |-> 1, tflx |-> 1]>>}
    /\ cmp_todo = <<>>
    /\ cmp_pc = "start"

\* lines 65-89: the directories are listed, sorted and filtered
ListDirs ==
    /\ cmp_pc = "start"
    /\ cmp_todo' = alldirs_of(DOMAIN subruns
                       \cup (IF composite # <<>> THEN {CompositeName} ELSE {}))
    /\ cmp_pc' = "loop"
    /\ UNCHANGED <<subruns, composite>>
    /\ UNCHANGED <<calcVars, flxVars, catVars, sldVars>>
    /\ UNCHANGED <<txtVars, durVars, tsVars, sessVars>>

\* lines 91-210 for one directory of alldirs and the flx file followed
StitchDir ==
    /\ cmp_pc = "loop"
    /\ cmp_todo # <<>>
    /\ LET src_tmp == Head(cmp_todo)
           startyear_tmp == startyear_of(re_search(src_tmp))
       IN  composite' = to_csv_append(composite,
                            shifted_rows(subruns[src_tmp], startyear_tmp))
    /\ cmp_todo' = Tail(cmp_todo)
    /\ UNCHANGED <<subruns, cmp_pc>>
    /\ UNCHANGED <<calcVars, flxVars, catVars, sldVars>>
    /\ UNCHANGED <<txtVars, durVars, tsVars, sessVars>>

\* the loop over alldirs is exhausted and build_composite returns
StitchDone ==
    /\ cmp_pc = "loop"
    /\ cmp_todo = <<>>
    /\ cmp_pc' = "done"
    /\ UNCHANGED <<subruns, cmp_todo, composite>>
    /\ UNCHANGED <<calcVars, flxVars, catVars, sldVars>>
    /\ UNCHANGED <<txtVars, durVars, tsVars, sessVars>>

NextComposite ==
    \/ ListDirs
    \/ StitchDir
    \/ StitchDone

SpecComposite == InitComposite /\ [][NextComposite]_vars

-----------------------------------------------------------------------------
(* A session: any sequence of calls of co2_flx, carbAlk_adv, sumCat_adv,    *)
(* sld_flx, cflx_calc and prof_postproc_save on one run directory           *)
(* (SpecSession).  rundir holds the subdirectories of the run directory,    *)
(* each as a function from the names of its files to their tables or        *)
(* datasets.  The files that lie in the run directory itself are not part   *)
(* of it, among them the check_results.res, check_logs.res and              *)
(* completed.res that run_complete_check of scepter_helperFxns.py writes    *)
(* there.  module_dict is the object the module binds to molar_mass_dict;   *)
(* defaults holds the objects that the def statements bound to the list and *)
(* dict parameters.  caller holds the arguments that the caller passes in   *)
(* every call of the five flux functions of the session; an assembler       *)
(* called directly gets its lists and dicts from its defaults.  results     *)
(* keeps, per kind of call, what its latest call returned or raised, and    *)
(* for cflx_calc the tables it pickled.                                     *)

\* at most this many calls are made in a session
MaxCalls == 3

\* line 1030: save_dir = "postproc_flxs"
save_dir == "postproc_flxs"

\* the default-argument objects as the def statements create them: lines
\* 260-261 (co2_flx), 701 (sumCat_adv), 886 (build_cation_df), 1031
\* (cflx_calc).  The molar_mass_dict default of sld_flx (line 429) is the
\* module's object itself, held in module_dict.
DefaultObjects ==
    [organic_sp_list |-> organic_sp_list,
     inorganic_sp_list |-> inorganic_sp_list,
     catvars_keys |-> catvars_keys,
     catvars_charge |-> catvars_charge,
     cation_inorganic_sp_list |-> cation_inorganic_sp_list,
     calc_list |-> MetricNames]

\* co2_flx(outdir, runname, organic_sp_list=org_list,
\* inorganic_sp_list=inorg_list, convert_units=conv) over flx/: [exc, out]
co2_flx_on(dir, conv, org_list, inorg_list) ==
    IF get_data_raises(DOMAIN dir, "flx_gas", "pco2") # "none"
    THEN [exc |-> get_data_raises(DOMAIN dir, "flx_gas", "pco2")]
    ELSE [exc |-> "none",
          out |-> co2_flx_with(dir[FlxFile("flx_gas", "pco2")],
                               dir[IntFile("flx_gas", "pco2")], conv, "pco2",
                               org_list, inorg_list)]

\* carbAlk_adv(outdir, runname, convert_units=conv) over flx/: [exc, out]
carbAlk_adv_on(dir, conv) ==
    IF get_data_raises(DOMAIN dir, "flx_co2sp", "ALK") # "none"
    THEN [exc |-> get_data_raises(DOMAIN dir, "flx_co2sp", "ALK")]
    ELSE [exc |-> "none",
          out |-> carbAlk_adv(dir[FlxFile("flx_co2sp", "ALK")],
                              dir[IntFile("flx_co2sp", "ALK")], conv, "ALK")]

\* sld_flx(outdir, runname, fs, dust_from_file=dff, molar_mass_dict=mm_dict)
\* over flx/: get_data on the feedstock's files (line 472), dust.txt only
\* when dust_from_file (lines 480-483): [exc, tdfint]
sld_flx_on(dir, fs, dff, mm_dict) ==
    IF get_data_raises(DOMAIN dir, "flx_sld", fs) # "none"
    THEN [exc |-> get_data_raises(DOMAIN dir, "flx_sld", fs)]
    ELSE IF dff /\ "dust.txt" \notin DOMAIN dir
    THEN [exc |-> "FileNotFoundError"]
    ELSE sld_flx_with(fs, dff, dir[FlxFile("flx_sld", fs)],
                      dir[IntFile("flx_sld", fs)],
                      IF dff THEN dir["dust.txt"] ELSE <<>>, mm_dict)

\* what a block of cflx_calc gets from its assembler: the exception, or the
\* tables it pickles by file name.  Lines 1080-1081
co2_pickles(r) ==
    IF r.exc # "none" THEN [exc |-> r.exc]
    ELSE [exc |-> "none", pickled |-> (co2_savename :> r.out)]

\* lines 1095-1096
carbAlk_pickles(r) ==
    IF r.exc # "none" THEN [exc |-> r.exc]
    ELSE [exc |-> "none", pickled |-> (carbAlk_savename :> r.out)]

\* lines 1108-1116: the summary, and one file per key of sumCatdict
sumCat_pickles(r) ==
    IF r.exc # "none" THEN [exc |-> r.exc]
    ELSE [exc |-> "none",
          pickled |->
            ("cationflx_sum.pkl" :> r.outdfx)
            @@ [name \in {"cationflx_" \o c \o ".pkl" :
                             c \in DOMAIN r.out_dict} |->
                   r.out_dict[CHOOSE c \in DOMAIN r.out_dict :
                                 name = "cationflx_" \o c \o ".pkl"]]]

\* a block of cflx_calc after the blocks that left st = [exc, pickled]: not
\* reached when a block before it raised, skipped when its metric is not
\* selected; its exception ends the call, its pickles replace the files of
\* their names
cflx_block(st, selected, r) ==
    IF st.exc # "none" \/ ~selected THEN st
    ELSE IF r.exc # "none" THEN [exc |-> r.exc, pickled |-> st.pickled]
    ELSE [exc |-> "none", pickled |-> r.pickled @@ st.pickled]

RECURSIVE cflx_sld_loop(_, _, _, _)
\* lines 1123-1134: `for fs in feedstock` from the feedstocks todo on; st is
\* [exc, pickled]; sld_flx gets the literal dust_from_file=True and the
\* module's molar_mass_dict
cflx_sld_loop(dir, todo, mm_dict, st) ==
    IF todo = <<>> \/ st.exc # "none" THEN st
    ELSE LET r == sld_flx_on(dir, Head(todo), TRUE, mm_dict)
         IN  IF r.exc # "none" THEN [st EXCEPT !.exc = r.exc]
             ELSE cflx_sld_loop(dir, Tail(todo), mm_dict,
                     [exc |-> "none",
                      pickled |-> (sld_savename(Head(todo)) :> r.tdfint)
                                  @@ st.pickled])

\* lines 1118-1134: block [4]
cflx_sld_block(st, selected, dir, todo, mm_dict) ==
    IF st.exc # "none" \/ ~selected THEN st
    ELSE cflx_sld_loop(dir, todo, mm_dict, st)

\* cflx_calc(outdir, runname, feedstock, dust_from_file, convert_units,
\* calc_list=clist) over flx/, lines 1067-1134: the blocks in order, each
\* skipped when its metric is not in calc_list, the first exception ending
\* the call: [exc, pickled], pickled holding the tables written by to_pickle
\* under their file names.  co2_flx and sumCat_adv get the literal lists and
\* registry of lines 1074-1075 and 1104, sumCat_adv the literal
\* convert_units=True; build_cation_df falls back on its default
\* inorganic_sp_list (inorg_list); dust_from_file is not read.
cflx_calc(dir, fs_arg, dff, conv, clist, mm_dict, inorg_list) ==
    cflx_sld_block(
        cflx_block(
            cflx_block(
                cflx_block([exc |-> "none", pickled |-> <<>>],
                    "co2_flx" \in clist,
                    co2_pickles(co2_flx_on(dir, conv, organic_sp_list,
                                           inorganic_sp_list))),
                "carbAlk_adv" \in clist,
                carbAlk_pickles(carbAlk_adv_on(dir, conv))),
            "sumCat_adv" \in clist,
            sumCat_pickles(sumCat_adv_with(dir, TRUE, catvars_keys,
                                           catvars_charge, inorg_list))),
        "sld_flx" \in clist, dir, FeedstockList(fs_arg), mm_dict)

(* prof_postproc_save on the run directory.  A dataset is held as its      *)
(* coordinates, its data variables and its attributes; a data variable as  *)
(* its dimensions, its values by (depth, time) and its attributes.  A cell *)
(* that no row of the frame gave is NaN: it is not in the domain of the    *)
(* values.  A depth mean is held as the exact quotient of the cumulative   *)
(* sum by the cumulative count, in lowest terms.                           *)

\* Op(v), with v worked out once
With(v, Op(_)) == CHOOSE r \in {Op(x) : x \in {v}} : TRUE

\* lines 1142-1211: the keys of postproc_prof_dict in the order of the dict
postproc_prof_keys ==
    <<"adsorbed", "adsorbed_percCEC", "adsorbed_ppm", "aqueous",
      "aqueous_total", "bulksoil", "exchange_total", "gas", "rate",
      "soil_ph", "solid", "solid_sp_saturation", "solid_volumePercent",
      "solid_weightPercent", "specific_surface_area", "surface_area">>

\* lines 1142-1211: the keyword arguments of each key
postproc_prof_dict ==
    [adsorbed |-> [var_prefix |-> "prof_aq(ads)", var_units |-> "mol/L"],
     adsorbed_percCEC |->
         [var_prefix |-> "prof_aq(ads%cec)", var_units |-> "%cec"],
     adsorbed_ppm |-> [var_prefix |-> "prof_aq(adsppm)", var_units |-> "ppm"],
     aqueous |-> [var_prefix |-> "prof_aq", var_units |-> "mol/L"],
     aqueous_total |-> [var_prefix |-> "prof_aq(tot)", var_units |-> "mol/L"],
     bulksoil |-> [var_prefix |-> "bsd"],
     exchange_total |-> [var_prefix |-> "prof_ex(tot)", var_units |-> "mol/L"],
     gas |-> [var_prefix |-> "prof_gas", var_units |-> "atm",
              calculate_mean |-> FALSE],
     rate |-> [var_prefix |-> "rate", var_units |-> "mol/m2/yr"],
     soil_ph |-> [var_prefix |-> "prof_aq", var_units |-> "mol/L"],
     solid |-> [var_prefix |-> "prof_sld", var_units |-> "mol/m3"],
     solid_sp_saturation |-> [var_prefix |-> "sat_sld", var_units |-> "X"],
     solid_volumePercent |->
         [var_prefix |-> "prof_sld(v%)", var_units |-> "%vol"],
     solid_weightPercent |->
         [var_prefix |-> "prof_sld(wt%)", var_units |-> "wt%"],
     specific_surface_area |-> [var_prefix |-> "ssa", var_units |-> "m2/g(?)"],
     surface_area |-> [var_prefix |-> "sa", var_units |-> "X"]]

\* line 1453: save_dir = "postproc_profs"
prof_save_dir == "postproc_profs"

\* lines 1219, 1327 and 1383: time_indices = np.arange(1, 21, 1)
time_indices == [i \in 1..20 |-> i]

\* line 241: f"{var_prefix}-{time_index:03d}.txt"
prof_fn(var_prefix, time_index) ==
    var_prefix \o "-"
    \o (IF time_index < 10 THEN "00"
        ELSE IF time_index < 100 THEN "0" ELSE "")
    \o ToString(time_index) \o ".txt"

\* line 246: rename(columns={"z": "depth"}) on a row
rename_z(row) ==
    IF "z" \notin DOMAIN row THEN row
    ELSE [c \in (DOMAIN row \ {"z"}) \cup {"depth"} |->
             IF c = "depth" THEN row["z"] ELSE row[c]]

\* lines 209-249: get_data_prof over prof/: [exc, df]; open() of
\* preprocess_txt (line 138) raises when the file is not there
get_data_prof(dir, var_prefix, time_index) ==
    IF prof_fn(var_prefix, time_index) \notin DOMAIN dir
    THEN [exc |-> "FileNotFoundError"]
    ELSE [exc |-> "none",
          df |-> [i \in DOMAIN dir[prof_fn(var_prefix, time_index)] |->
                     rename_z(dir[prof_fn(var_prefix, time_index)][i])]]

\* lines 1257-1262 and 1357-1362: the loop over time_indices: the frames of
\* the profile files one after the other, or the exception of the first
\* get_data_prof that raises
profile_frames(dir, var_prefix) ==
    LET upto[n \in 0..Len(time_indices)] ==
            IF n = 0 THEN [exc |-> "none", outdf |-> <<>>]
            ELSE With(upto[n - 1], LAMBDA prev :
                   IF prev.exc # "none" THEN prev
                   ELSE With(get_data_prof(dir, var_prefix, time_indices[n]),
                          LAMBDA tmpdf :
                            IF tmpdf.exc # "none" THEN [exc |-> tmpdf.exc]
                            ELSE [exc |-> "none",
                                  outdf |-> Concat(prev.outdf, tmpdf.df)]))
    IN  upto[Len(time_indices)]

\* the values of a coordinate in ascending order
SortedCoord(S) ==
    LET upto[n \in 0..Cardinality(S)] ==
            IF n = 0 THEN [seq |-> <<>>, rest |-> S]
            ELSE With(upto[n - 1], LAMBDA prev :
                   With(CHOOSE x \in prev.rest : \A y \in prev.rest : x <= y,
                     LAMBDA least : [seq |-> Append(prev.seq, least),
                                     rest |-> prev.rest \ {least}]))
    IN  upto[Cardinality(S)].seq

\* the values of the column v of a frame by the depth and time of their rows
cells(frame, v) ==
    LET upto[n \in 0..Len(frame)] ==
            IF n = 0 THEN <<>>
            ELSE (<<frame[n]["depth"], frame[n]["time"]>> :> frame[n][v])
                 @@ upto[n - 1]
    IN  upto[Len(frame)]

\* lines 1265 and 1365: outdf.set_index(["depth", "time"]).to_xarray():
\* KeyError without the two columns, ValueError when two rows share their
\* depth and time; the coordinates sorted, one data variable per other column
to_xarray(frame) ==
    IF ~({"depth", "time"} \subseteq Columns(frame))
    THEN [exc |-> "KeyError"]
    ELSE IF Cardinality({<<frame[i]["depth"], frame[i]["time"]>> :
                            i \in DOMAIN frame}) # Len(frame)
    THEN [exc |-> "ValueError"]
    ELSE [exc |-> "none",
          ds |-> [coords |->
                     [depth |-> SortedCoord({frame[i]["depth"] :
                                                i \in DOMAIN frame}),
                      time |-> SortedCoord({frame[i]["time"] :
                                               i \in DOMAIN frame})],
                  data_vars |->
                     [v \in Columns(frame) \ {"depth", "time"} |->
                         [dims |-> <<"depth", "time">>,
                          values |-> cells(frame, v),
                          attrs |-> <<>>]],
                  attrs |-> <<>>]]

\* n / d for d > 0 in lowest terms
Ratio(n, d) ==
    LET g == CHOOSE x \in 1..d :
                 /\ n % x = 0
                 /\ d % x = 0
                 /\ \A y \in (x + 1)..d : n % y # 0 \/ d % y # 0
    IN  [num |-> n \div g, den |-> d \div g]

\* the value of a cell in a sum that skips NaN
NanAsZero(values, p) == IF p \in DOMAIN values THEN values[p] ELSE 0

\* lines 1270-1278: cumsum(dim="depth") over the cumulative count of
\* ones_like, for one data variable: the mean from the first depth to each
\* depth, at every time
depth_mean(values, depth, time) ==
    [p \in Range(depth) \X Range(time) |->
        LET k == CHOOSE i \in DOMAIN depth : depth[i] = p[1]
            cumsum[i \in 0..k] ==
                IF i = 0 THEN 0
                ELSE cumsum[i - 1] + NanAsZero(values, <<depth[i], p[2]>>)
        IN  Ratio(cumsum[k], k)]

\* lines 1267-1284: the dataset with the means of its variables merged in,
\* each under the name of its variable, "_" and the suffix
with_depth_mean(ds, depth_mean_suffix) ==
    [ds EXCEPT !.data_vars =
        @ @@ [name \in {v \o "_" \o depth_mean_suffix : v \in DOMAIN @} |->
                 [dims |-> <<"depth", "time">>,
                  values |->
                     depth_mean(@[CHOOSE v \in DOMAIN @ :
                                     name = v \o "_" \o depth_mean_suffix]
                                   .values,
                                ds.coords.depth, ds.coords.time),
                  attrs |-> <<>>]]]

\* lines 1287-1288: the same units on every data variable
with_units(ds, var_units) ==
    [ds EXCEPT !.data_vars =
        [v \in DOMAIN @ |-> [@[v] EXCEPT !.attrs = ("units" :> var_units)]]]

\* lines 1214-1294: profile_to_ds_optMean over prof/: [exc, ds]
profile_to_ds_optMean(dir, var_prefix, var_units, calculate_mean, depth_mean_suffix) ==
    With(profile_frames(dir, var_prefix), LAMBDA read :
      IF read.exc # "none" THEN [exc |-> read.exc]
      ELSE With(to_xarray(read.outdf), LAMBDA made :
             IF made.exc # "none" THEN [exc |-> made.exc]
             ELSE [exc |-> "none",
                   ds |-> [with_units(
                              IF calculate_mean
                              THEN with_depth_mean(made.ds, depth_mean_suffix)
                              ELSE made.ds,
                              var_units)
                           EXCEPT !.attrs = ("outfile" :> var_prefix)]]))

\* the column names of the model's bsd files that hold units in brackets,
\* with the text between the brackets
BracketedUnits == ("v[m]" :> "m")

\* lines 1297-1320: re.search(r"\[(.*?)\]", var_name): the text of the
\* first brackets, or "NA"
get_bsd_prof_units(var_name) ==
    IF var_name \in DOMAIN BracketedUnits THEN BracketedUnits[var_name]
    ELSE "NA"

\* lines 1323-1375: bsd_profile_to_ds over prof/: [exc, ds]
bsd_profile_to_ds(dir, var_prefix) ==
    With(profile_frames(dir, var_prefix), LAMBDA read :
      IF read.exc # "none" THEN [exc |-> read.exc]
      ELSE With(to_xarray(read.outdf), LAMBDA made :
             IF made.exc # "none" THEN [exc |-> made.exc]
             ELSE [exc |-> "none",
                   ds |-> [made.ds EXCEPT !.data_vars =
                              [v \in DOMAIN @ |->
                                  [@[v] EXCEPT !.attrs =
                                      ("units" :> get_bsd_prof_units(v))]]]]))

\* lines 1434-1442: base_saturation, the sum of the bases that the dataset
\* holds, or NaN when it holds none
with_base_saturation(ds, var_units) ==
    LET valid_vars == {v \in {"ca", "mg", "k", "na"} : v \in DOMAIN ds.data_vars}
        sum_over[S \in SUBSET valid_vars] ==
            [p \in Range(ds.coords.depth) \X Range(ds.coords.time) |->
                IF S = {} THEN 0
                ELSE LET v == CHOOSE x \in S : TRUE
                     IN  NanAsZero(ds.data_vars[v].values, p)
                         + sum_over[S \ {v}][p]]
    IN  [ds EXCEPT !.data_vars =
            @ @@ ("base_saturation" :>
                    IF valid_vars # {}
                    THEN [dims |-> <<"depth", "time">>,
                          values |-> sum_over[valid_vars],
                          attrs |-> ("units" :> var_units)]
                    ELSE [dims |-> <<>>, values |-> <<>>,
                          attrs |-> ("units" :> var_units)])]

\* lines 1378-1445: ads_percCec_prof_baseSat over prof/: [exc, ds]; the
\* means under depth_mean_suffix = "depmean" of line 1385
ads_percCec_prof_baseSat(dir, var_prefix, var_units) ==
    With(profile_to_ds_optMean(dir, var_prefix, var_units, TRUE, "depmean"),
         LAMBDA got :
      IF got.exc # "none" THEN got
      ELSE [exc |-> "none", ds |-> with_base_saturation(got.ds, var_units)])

\* lines 1507-1509: ds.sel(time=np.max(ds.time.values)): the values at the
\* last time, by depth, the time left as a scalar coordinate
sel_max_time(ds) ==
    LET tmax == ds.coords.time[Len(ds.coords.time)]
    IN  [coords |-> [depth |-> ds.coords.depth, time |-> tmax],
         data_vars |->
            [v \in DOMAIN ds.data_vars |->
                [dims |-> <<"depth">>,
                 values |->
                    [d \in {p[1] : p \in {q \in DOMAIN ds.data_vars[v].values :
                                             q[2] = tmax}} |->
                        ds.data_vars[v].values[<<d, tmax>>]],
                 attrs |-> ds.data_vars[v].attrs]],
         attrs |-> ds.attrs]

\* calculate_mean as the call of lines 1507 and 1513 passes it: the entry of
\* the dict, or the default True of line 1220
calculate_mean_of(pp) ==
    IF "calculate_mean" \in DOMAIN postproc_prof_dict[pp]
    THEN postproc_prof_dict[pp]["calculate_mean"]
    ELSE TRUE

\* lines 1500-1513: the dataset of one key of postproc_prof_dict: [exc, ds];
\* profile_to_ds_optMean with its default depth_mean_suffix = "coredep" of
\* line 1221
postproc_ds(dir, pp) ==
    IF pp = "bulksoil"
    THEN bsd_profile_to_ds(dir, postproc_prof_dict[pp]["var_prefix"])
    ELSE IF pp = "adsorbed_percCEC"
    THEN ads_percCec_prof_baseSat(dir, postproc_prof_dict[pp]["var_prefix"],
                                  postproc_prof_dict[pp]["var_units"])
    ELSE IF pp = "soil_ph"
    THEN With(profile_to_ds_optMean(dir, postproc_prof_dict[pp]["var_prefix"],
                                    postproc_prof_dict[pp]["var_units"],
                                    calculate_mean_of(pp), "coredep"),
           LAMBDA got :
             IF got.exc # "none" THEN got
             ELSE [exc |-> "none", ds |-> sel_max_time(got.ds)])
    ELSE profile_to_ds_optMean(dir, postproc_prof_dict[pp]["var_prefix"],
                               postproc_prof_dict[pp]["var_units"],
                               calculate_mean_of(pp), "coredep")

\* lines 1483-1496: ["all"] stands for every key of the dict, and the names
\* that are no key of the dict are dropped
valid_prof_list(postproc_prof_list) ==
    SelectSeq(IF postproc_prof_list = <<"all">>
              THEN postproc_prof_keys ELSE postproc_prof_list,
              LAMBDA key : key \in DOMAIN postproc_prof_dict)

\* lines 1498-1517: `for pp in postproc_prof_list`: the dataset of each
\* name is saved under <pp>.nc, in the order of the list, until one raises
prof_save_loop(dir, pplist) ==
    LET upto[i \in 0..Len(pplist)] ==
            IF i = 0 THEN [exc |-> "none", saved |-> <<>>]
            ELSE With(upto[i - 1], LAMBDA prev :
                   IF prev.exc # "none" THEN prev
                   ELSE With(postproc_ds(dir, pplist[i]), LAMBDA got :
                          IF got.exc # "none"
                          THEN [exc |-> got.exc, saved |-> prev.saved]
                          ELSE [exc |-> "none",
                                saved |-> ((pplist[i] \o ".nc") :> got.ds)
                                          @@ prev.saved]))
    IN  upto[Len(pplist)]

\* lines 1483-1517 of prof_postproc_save(outdir, runname_field, runname_lab,
\* postproc_prof_list) over prof/: [exc, saved], saved holding the datasets
\* written by to_netcdf under their file names
prof_postproc_save(dir, postproc_prof_list) ==
    With(valid_prof_list(postproc_prof_list),
         LAMBDA pplist : prof_save_loop(dir, pplist))

(* The run of the session.  flx/ holds the files of AllFiles but for one of *)
(* the sets of SessionMissing; the dust grid is shorter than the grid of    *)
(* the flx_sld files, so that sld_flx interpolates.  prof/ holds the twenty *)
(* profile files of four of the prefixes of postproc_prof_dict, which none  *)
(* of the five flux functions is given and prof_postproc_save reads.        *)

FullFlx ==
    [f \in AllFiles |->
        IF f \in {FlxFile("flx_gas", "pco2"), IntFile("flx_gas", "pco2")}
        THEN ExampleTable
        ELSE IF f \in {FlxFile("flx_co2sp", "ALK"), IntFile("flx_co2sp", "ALK")}
        THEN GenTable(MaxRows, [time |-> 1, dif |-> 2, tflx |-> -3, adv |-> 2])
        ELSE IF f = "dust.txt"
        THEN DustTable(<<0, 2>>, <<2, 4, 6, 8>>, <<"gbas", "cc">>)
        ELSE IF \E fs \in FeedstockIds :
                   f \in {FlxFile("flx_sld", fs), IntFile("flx_sld", fs)}
        THEN SldTable(<<0, 1, 2>>, [adv |-> 1, fs |-> 2, rain |-> -5,
                                    tflx |-> 3],
                      CHOOSE fs \in FeedstockIds :
                         f \in {FlxFile("flx_sld", fs), IntFile("flx_sld", fs)})
        ELSE CatTable(MaxRows,
                      [time |-> 1, tflx |-> 3, adv |-> -2, dif |-> 0,
                       cc |-> 4, gbas |-> -6, res |-> 0])]

\* the prefixes of the profile files that the run wrote
ProfPrefixes == {"prof_aq", "prof_gas", "prof_aq(ads%cec)", "bsd"}

\* the columns of a profile file between z and time
ProfColumns(var_prefix) ==
    IF var_prefix = "prof_aq" THEN <<"ca", "ph">>
    ELSE IF var_prefix = "prof_gas" THEN <<"pco2">>
    ELSE IF var_prefix = "prof_aq(ads%cec)" THEN <<"ca", "al">>
    ELSE <<"poro", "v[m]">>

\* the profile file of a prefix at a time index: one row per depth, the
\* time of the profile on every row
ProfTable(var_prefix, time_index) ==
    [i \in 1..MaxRows |->
        [c \in Range(ProfColumns(var_prefix)) \cup {"z", "time"} |->
            IF c = "z" THEN i
            ELSE IF c = "time" THEN time_index
            ELSE i * i * (CHOOSE k \in DOMAIN ProfColumns(var_prefix) :
                             ProfColumns(var_prefix)[k] = c)
                 + time_index]]

ProfDir ==
    [fn \in {prof_fn(p, ts) : p \in ProfPrefixes, ts \in Range(time_indices)} |->
        LET of == CHOOSE pt \in ProfPrefixes \X Range(time_indices) :
                     prof_fn(pt[1], pt[2]) = fn
        IN  ProfTable(of[1], of[2])]

SessionMissing ==
    {{}, {IntFile("flx_gas", "pco2")}, {"dust.txt"},
     {FlxFile("flx_sld", "gbas")},
     {FlxFile("flx_aq", c) : c \in Range(catvars_keys)}}

SessionFeedstocks ==
    {[list |-> FALSE, val |-> "cc"],
     [list |-> TRUE, val |-> <<"cc", "gbas">>],
     [list |-> TRUE, val |-> <<"gbas", "cc">>]}

\* the calc_list the caller passes, or none (given = FALSE) for the default
SessionCalcLists ==
    {[given |-> FALSE, val |-> {}],
     [given |-> TRUE, val |-> {"sumCat_adv", "sld_flx"}]}

\* the postproc_prof_list that a call of prof_postproc_save is given: the
\* default, no name, a name that is no key of the dict, keys whose profile
\* files are all there, and keys the fourth of which has no profile file
SessionProfLists ==
    {<<"all">>, <<>>, <<"nonexistent">>,
     <<"aqueous", "nonexistent", "soil_ph">>,
     <<"gas", "adsorbed_percCEC", "bulksoil", "solid", "aqueous">>}

\* the kinds of call of the five flux functions: the four that take no
\* feedstock, and sld_flx per feedstock
SldKey(fs) == "sld_flx " \o fs

FlxKeys ==
    {"co2_flx", "carbAlk_adv", "sumCat_adv", "cflx_calc"}
    \cup {SldKey(fs) : fs \in FeedstockIds}

\* the kinds of call of a session
SessionKeys == FlxKeys \cup {"prof_postproc_save"}

RECURSIVE SumOver(_, _)
SumOver(f, S) ==
    IF S = {} THEN 0
    ELSE LET k == CHOOSE x \in S : TRUE
         IN  f[k] + SumOver(f, S \ {k})

CallsMade == SumOver(calls, DOMAIN calls)

InitSession ==
    /\ CalcIdle
    /\ FlxIdle
    /\ CatIdle
    /\ SldIdle
    /\ TxtIdle
    /\ DurIdle
    /\ StepsIdle
    /\ CompositeIdle
    /\ \E missing \in SessionMissing :
          rundir = [flx |-> [f \in AllFiles \ missing |-> FullFlx[f]],
                    prof |-> ProfDir]
    /\ module_dict = molar_mass_dict
    /\ defaults = DefaultObjects
    /\ caller \in [feedstock : SessionFeedstocks,
                   calc_list : SessionCalcLists,
                   dust_from_file : BOOLEAN,
                   convert_units : BOOLEAN]
    /\ calls = [k \in SessionKeys |-> 0]
    /\ results = <<>>

\* a call of kind key has ended with r, a table or an exception
Ended(key, r) ==
    /\ CallsMade < MaxCalls
    /\ calls' = [calls EXCEPT ![key] = @ + 1]
    /\ results' = [k \in DOMAIN results \cup {key} |->
                      IF k = key THEN r ELSE results[k]]

OthersIdle ==
    UNCHANGED <<calcVars, flxVars, catVars, sldVars, txtVars, durVars,
                tsVars, cmpVars>>

\* co2_flx(outdir, runname, convert_units=...): the species lists are the
\* default objects
CallCo2FlxOnRun ==
    /\ Ended("co2_flx",
                co2_flx_on(rundir["flx"], caller.convert_units,
                           defaults.organic_sp_list,
                           defaults.inorganic_sp_list))
    /\ UNCHANGED <<rundir, module_dict, defaults, caller>>
    /\ OthersIdle

\* carbAlk_adv(outdir, runname, convert_units=...)
CallCarbAlkAdvOnRun ==
    /\ Ended("carbAlk_adv",
                carbAlk_adv_on(rundir["flx"], caller.convert_units))
    /\ UNCHANGED <<rundir, module_dict, defaults, caller>>
    /\ OthersIdle

\* sumCat_adv(outdir, runname, convert_units=...): the registry is the
\* default object, and so is the inorganic_sp_list of build_cation_df
CallSumCatAdvOnRun ==
    /\ Ended("sumCat_adv",
                sumCat_adv_with(rundir["flx"], caller.convert_units,
                                defaults.catvars_keys,
                                defaults.catvars_charge,
                                defaults.cation_inorganic_sp_list))
    /\ UNCHANGED <<rundir, module_dict, defaults, caller>>
    /\ OthersIdle

\* sld_flx(outdir, runname, fs, dust_from_file=...): molar_mass_dict is the
\* default, the module's object
CallSldFlxOnRun ==
    /\ \E fs \in FeedstockIds :
          Ended(SldKey(fs),
                   sld_flx_on(rundir["flx"], fs, caller.dust_from_file,
                              module_dict))
    /\ UNCHANGED <<rundir, module_dict, defaults, caller>>
    /\ OthersIdle

\* the calc_list that cflx_calc works with
CalcListOf(c) ==
    IF c.calc_list.given THEN c.calc_list.val ELSE defaults.calc_list

\* what cflx_calc does on the run as it stands
CflxCalcOnRun ==
    cflx_calc(rundir["flx"], caller.feedstock, caller.dust_from_file,
              caller.convert_units, CalcListOf(caller), module_dict,
              defaults.cation_inorganic_sp_list)

\* lines 1062-1065 and the to_pickle calls: the save directory is made when
\* it does not exist, a pickle replaces the file of its name
SaveDirAfter(pickled) ==
    [d \in DOMAIN rundir \cup {save_dir} |->
        IF d # save_dir THEN rundir[d]
        ELSE IF save_dir \in DOMAIN rundir
        THEN pickled @@ rundir[save_dir]
        ELSE pickled]

\* cflx_calc(outdir, runname, feedstock, dust_from_file, convert_units
\* [, calc_list=...]), the whole call but for what it leaves of the caller's
\* arguments
CflxCalcActs ==
    /\ Ended("cflx_calc", CflxCalcOnRun)
    /\ rundir' = SaveDirAfter(CflxCalcOnRun.pickled)
    /\ UNCHANGED <<module_dict, defaults>>
    /\ OthersIdle

\* a cflx_calc whose block [4] takes its feedstocks off the list with
\* `while feedstock: fs = feedstock.pop(0)`: a list the caller passed loses
\* the feedstocks the loop got to
CallCflxCalcOnRun_popping ==
    /\ CflxCalcActs
    /\ LET dir == rundir["flx"]
           fl == FeedstockList(caller.feedstock)
           before == cflx_calc(dir, caller.feedstock, caller.dust_from_file,
                               caller.convert_units,
                               CalcListOf(caller) \ {"sld_flx"}, module_dict,
                               defaults.cation_inorganic_sp_list)
           n_ok == Cardinality({k \in DOMAIN fl : \A z \in 1..k :
                       sld_flx_on(dir, fl[z], TRUE, module_dict).exc = "none"})
           popped == IF n_ok < Len(fl) THEN n_ok + 1 ELSE n_ok
       IN  caller' = IF /\ caller.feedstock.list
                        /\ "sld_flx" \in CalcListOf(caller)
                        /\ before.exc = "none"
                     THEN [caller EXCEPT !.feedstock.val =
                              SubSeq(@, popped + 1, Len(@))]
                     ELSE caller

\* cflx_calc(outdir, runname, feedstock, dust_from_file, convert_units
\* [, calc_list=...]): line 1122 binds the local name feedstock to a new
\* list, and the loop at 1123 only reads a list it was given
CallCflxCalcOnRun ==
    /\ CflxCalcActs
    /\ UNCHANGED caller

\* lines 1478-1481 and 1517: the directory of the profile datasets is made
\* when it does not exist, a dataset replaces the file of its name
ProfSaveDirAfter(written) ==
    [d \in DOMAIN rundir \cup {prof_save_dir} |->
        IF d # prof_save_dir THEN rundir[d]
        ELSE IF prof_save_dir \in DOMAIN rundir
        THEN written @@ rundir[prof_save_dir]
        ELSE written]

\* prof_postproc_save on the profile files a session starts with, by its
\* list: no function of the module writes into prof/, so that the calls of
\* a session read these files again and again
SavedFromProfDir ==
    [postproc_prof_list \in SessionProfLists |->
        prof_postproc_save(ProfDir, postproc_prof_list)]

\* prof_postproc_save(outdir, runname, runname_lab
\* [, postproc_prof_list=...]): it returns nothing, so that its result is
\* the exception it ends with or none
CallProfPostprocSave ==
    /\ \E postproc_prof_list \in SessionProfLists :
          \E r \in {IF rundir["prof"] = ProfDir
                    THEN SavedFromProfDir[postproc_prof_list]
                    ELSE prof_postproc_save(rundir["prof"],
                                            postproc_prof_list)} :
             /\ Ended("prof_postproc_save", [exc |-> r.exc])
             /\ rundir' = ProfSaveDirAfter(r.saved)
    /\ UNCHANGED <<module_dict, defaults, caller>>
    /\ OthersIdle

NextSession ==
    \/ CallCo2FlxOnRun
    \/ CallCarbAlkAdvOnRun
    \/ CallSumCatAdvOnRun
    \/ CallSldFlxOnRun
    \/ CallCflxCalcOnRun
    \/ CallProfPostprocSave

SpecSession == InitSession /\ [][NextSession]_vars

-----------------------------------------------------------------------------
(* Properties of cflx_calc (SpecCalc) *)

CalcEnded == pc \in {"done", "raised"}

SuppliedFeedstocks ==
    IF feedstock.list THEN Range(feedstock.val) ELSE {feedstock.val}

DiscoveredCations ==
    {c \in {"ca", "mg", "k", "na"} : ("flx_aq-" \o c \o ".txt") \in files}

\* the input files a metric reads are all there
OwnInputsPresent(m) ==
    CASE m = "co2_flx" ->
            {"flx_gas-pco2.txt", "int_flx_gas-pco2.txt"} \subseteq files
      [] m = "carbAlk_adv" ->
            {"flx_co2sp-ALK.txt", "int_flx_co2sp-ALK.txt"} \subseteq files
      [] m = "sumCat_adv" ->
            /\ DiscoveredCations # {}
            /\ \A c \in DiscoveredCations :
                  ("int_flx_aq-" \o c \o ".txt") \in files
      [] m = "sld_flx" ->
            /\ "dust.txt" \in files
            /\ \A f \in SuppliedFeedstocks :
                  {"flx_sld-" \o f \o ".txt", "int_flx_sld-" \o f \o ".txt"}
                     \subseteq files

\* the artifacts a metric writes when it succeeds
ExpectedArtifacts(m) ==
    CASE m = "co2_flx" -> {"co2_flxs.pkl"}
      [] m = "carbAlk_adv" -> {"carbAlk_flxs.pkl"}
      [] m = "sumCat_adv" ->
            {"cationflx_sum.pkl"}
            \cup {"cationflx_" \o c \o ".pkl" : c \in DiscoveredCations}
      [] m = "sld_flx" ->
            {"rockflx_" \o f \o ".pkl" : f \in SuppliedFeedstocks}

\* every artifact name a metric can write
ArtifactNames(m) ==
    CASE m = "co2_flx" -> {"co2_flxs.pkl"}
      [] m = "carbAlk_adv" -> {"carbAlk_flxs.pkl"}
      [] m = "sumCat_adv" ->
            {"cationflx_sum.pkl"}
            \cup {"cationflx_" \o c \o ".pkl" : c \in {"ca", "mg", "k", "na"}}
      [] m = "sld_flx" -> {"rockflx_" \o f \o ".pkl" : f \in {"cc", "gbas"}}

\* C1: when cflx_calc has ended (normally or by an exception), every selected
\* metric whose own input files are all present has been computed and its
\* artifacts are in the save directory, whichever other metric failed.
C1_FailureDoesNotAbortOthers ==
    CalcEnded =>
        \A m \in calc_list :
            OwnInputsPresent(m) => ExpectedArtifacts(m) \subseteq saved

\* C2: starting from an empty save directory, when cflx_calc has ended the
\* save directory holds no artifact of the metric that failed.
C2_NoPartialOutput ==
    (CalcEnded /\ failed # "none") => saved \cap ArtifactNames(failed) = {}

\* C3: only selected metrics are ever invoked or write anything, and when
\* every selected metric has succeeded the save directory holds exactly the
\* artifacts of the selected metrics: co2_flxs, carbAlk_flxs, cationflx_sum
\* with one cationflx_<cation> per discovered cation, one rockflx_<feedstock>
\* per supplied feedstock (each with the suffix .pkl).
C3_ExactArtifacts ==
    /\ invoked \subseteq calc_list
    /\ \A m \in MetricNames \ calc_list : saved \cap ArtifactNames(m) = {}
    /\ pc = "done" =>
          /\ invoked = calc_list
          /\ saved = UNION {ExpectedArtifacts(m) : m \in calc_list}

C3_Witness ==
    /\ pc = "done"
    /\ calc_list = MetricNames
    /\ {"co2_flxs.pkl", "carbAlk_flxs.pkl", "cationflx_sum.pkl",
        "cationflx_ca.pkl", "rockflx_cc.pkl", "rockflx_gbas.pkl"}
          \subseteq saved
    /\ "cationflx_na.pkl" \notin saved

-----------------------------------------------------------------------------
(* Properties of co2_flx and carbAlk_adv (SpecFlx).  The expected values    *)
(* are written from the input tables df and dfint: row i of outdf comes     *)
(* from df[i] when i <= Len(df), from dfint[i - Len(df)] otherwise.         *)

SrcRow(i) == IF i <= Len(df) THEN df[i] ELSE dfint[i - Len(df)]
IsIntRow(i) == i > Len(df)

\* a flux of x tenths of mol of CO2 is x * 4401 1e-5 ton ha-1, or
\* x * 440100 1e-5 g m-2
ExpCo2Factor == IF convert_units THEN 4401 ELSE 440100

\* what the time multiplication contributes to row i
ExpTimeFactor(i) == IF IsIntRow(i) THEN SrcRow(i)["time"] ELSE 1

\* a column of a row, 0 when the row does not have it
Val(row, c) == IF c \in DOMAIN row THEN row[c] ELSE 0

OrgSum(src) == Val(src, "g1") + Val(src, "g2") + Val(src, "g3")
InorgSum(src) == Val(src, "arg") + Val(src, "cc") + Val(src, "dlm")
HasOrg(src) == {"g1", "g2", "g3"} \cap DOMAIN src # {}
HasInorg(src) == {"arg", "cc", "dlm"} \cap DOMAIN src # {}

\* C4 (as claimed): in every row returned by co2_flx that has the organic and
\* the carbonate source sums, co2flx_adv = -co2flx_dif - co2flx_resp
\* - co2flx_inorg - co2flx_tflx, whatever the input table.
C4_MassBalanceEnforced ==
    flxpc = "co2_flx" =>
        \A i \in DOMAIN outdf :
            LET r == outdf[i]
            IN  {"co2flx_resp", "co2flx_inorg"} \subseteq DOMAIN r =>
                   r["co2flx_adv"] = - r["co2flx_dif"] - r["co2flx_resp"]
                                     - r["co2flx_inorg"] - r["co2flx_tflx"]

\* C4 (amended): co2_flx passes adv through; in every row it returns, the
\* residual co2flx_adv + co2flx_dif + co2flx_resp + co2flx_inorg + co2flx_tflx
\* is the residual adv + dif + organic sources + carbonate sources + tflx of
\* the input row, times the unit factor and, in int_flx rows, times time.  So
\* the identity holds in an output row whenever the input row satisfies it.
C4_ResidualCarriedOver ==
    flxpc = "co2_flx" =>
        /\ Len(outdf) = Len(df) + Len(dfint)
        /\ \A i \in DOMAIN outdf :
              LET r == outdf[i]
                  src == SrcRow(i)
              IN  Val(r, "co2flx_adv") + Val(r, "co2flx_dif")
                  + Val(r, "co2flx_resp") + Val(r, "co2flx_inorg")
                  + Val(r, "co2flx_tflx")
                  = (src["adv"] + src["dif"] + OrgSum(src) + InorgSum(src)
                     + src["tflx"]) * ExpCo2Factor * ExpTimeFactor(i)

\* an int_flx row of year 2 or later with organic and carbonate sources whose
\* input satisfies the balance, and so does the output, with a non-zero adv
C4_Witness ==
    /\ flxpc = "co2_flx"
    /\ \E i \in DOMAIN outdf :
          LET r == outdf[i]
              src == SrcRow(i)
          IN  /\ HasOrg(src) /\ HasInorg(src)
              /\ src["adv"] = - src["dif"] - OrgSum(src) - InorgSum(src)
                              - src["tflx"]
              /\ r["co2flx_adv"] = - r["co2flx_dif"] - r["co2flx_resp"]
                                   - r["co2flx_inorg"] - r["co2flx_tflx"]
              /\ r["co2flx_adv"] # 0

\* C5: in every row returned by co2_flx, under either value of convert_units,
\* co2flx_inorg is the converted (and, in int_flx rows, time-multiplied) sum of
\* exactly the columns among arg, cc, dlm that the row's own input table has,
\* co2flx_resp the same for g1, g2, g3, and co2flx_adv_noinorg = co2flx_adv
\* + co2flx_inorg; a table without carbonate (organic) columns gets no
\* co2flx_inorg and co2flx_adv_noinorg (co2flx_resp) value.
C5_NoInorgIdentity ==
    flxpc = "co2_flx" =>
        \A i \in DOMAIN outdf :
            LET r == outdf[i]
                src == SrcRow(i)
                f == ExpCo2Factor * ExpTimeFactor(i)
            IN  /\ HasInorg(src) =>
                      /\ r["co2flx_inorg"] = InorgSum(src) * f
                      /\ r["co2flx_adv"] = src["adv"] * f
                      /\ r["co2flx_adv_noinorg"]
                            = r["co2flx_adv"] + r["co2flx_inorg"]
                /\ ~HasInorg(src) =>
                      {"co2flx_inorg", "co2flx_adv_noinorg"} \cap DOMAIN r = {}
                /\ HasOrg(src) => r["co2flx_resp"] = OrgSum(src) * f
                /\ ~HasOrg(src) => "co2flx_resp" \notin DOMAIN r

\* g/m2 output, the two input tables hold different source columns, and an
\* int_flx row of year 2 sums two carbonate columns into a non-zero value
C5_Witness ==
    /\ flxpc = "co2_flx"
    /\ ~convert_units
    /\ Columns(df) # Columns(dfint)
    /\ \E i \in DOMAIN outdf :
          /\ IsIntRow(i)
          /\ outdf[i]["time"] = 2
          /\ {"arg", "dlm"} \subseteq DOMAIN SrcRow(i)
          /\ outdf[i]["co2flx_adv_noinorg"] # outdf[i]["co2flx_adv"]

ExampleRun ==
    /\ flxpc = "co2_flx"
    /\ df = ExampleTable
    /\ dfint = ExampleTable
    /\ convert_units

\* the integrated rows of the example: every column is the raw value times
\* time times 44.01 x 0.01 (in 1e-5 ton ha-1: tenths times time times 4401)
ExampleIntegratedRows ==
    \A j \in 1..3 :
        LET r == outdf[3 + j]
            raw == ExampleTable[j]
        IN  /\ r["flx_type"] = "int_flx"
            /\ r["time"] = j
            /\ r["co2flx_dif"] = raw["dif"] * j * 4401
            /\ r["co2flx_tflx"] = raw["tflx"] * j * 4401
            /\ r["co2flx_adv"] = raw["adv"] * j * 4401
            /\ r["cc"] = raw["cc"] * j * 4401
            /\ r["co2flx_inorg"] = raw["cc"] * j * 4401
            /\ r["co2flx_adv_noinorg"] = (raw["adv"] + raw["cc"]) * j * 4401

\* C6 (as claimed): for the example files and default parameters co2_flx
\* returns co2flx_adv_noinorg = 0.5, 0.6, 0.7 in the instantaneous rows
\* (50000, 60000, 70000 in 1e-5), and integrated columns equal to the raw
\* value times time times 44.01 x 0.01.
C6_ExampleAsClaimed ==
    ExampleRun =>
        /\ outdf[1]["co2flx_adv_noinorg"] = 50000
        /\ outdf[2]["co2flx_adv_noinorg"] = 60000
        /\ outdf[3]["co2flx_adv_noinorg"] = 70000
        /\ ExampleIntegratedRows

\* C6 (amended): the instantaneous rows are unit-converted too, so
\* co2flx_adv_noinorg = 0.5, 0.6, 0.7 times 44.01 x 0.01 = 0.22005, 0.26406,
\* 0.30807 ton ha-1 yr-1; the integrated columns are as claimed.
C6_ExampleConverted ==
    ExampleRun =>
        /\ Len(outdf) = 6
        /\ \A i \in 1..3 : outdf[i]["flx_type"] = "flx"
        /\ outdf[1]["co2flx_adv_noinorg"] = 22005
        /\ outdf[2]["co2flx_adv_noinorg"] = 26406
        /\ outdf[3]["co2flx_adv_noinorg"] = 30807
        /\ ExampleIntegratedRows

C6_Witness ==
    /\ ExampleRun
    /\ outdf[6]["co2flx_adv_noinorg"] = 92421

\* the columns a row of co2_flx's result must have, given its input row
ExpCo2Columns(src) ==
    {"time", "co2flx_dif", "co2flx_tflx", "co2flx_adv", "units", "flx_type",
     "runname", "var"}
    \cup ({"g1", "g2", "g3", "arg", "cc", "dlm"} \cap DOMAIN src)
    \cup (IF HasOrg(src) THEN {"co2flx_resp"} ELSE {})
    \cup (IF HasInorg(src) THEN {"co2flx_inorg", "co2flx_adv_noinorg"} ELSE {})

\* row i of co2_flx's result holds the converted upstream values times tf
Co2RowScaledBy(i, tf) ==
    LET r == outdf[i]
        src == SrcRow(i)
        f == ExpCo2Factor * tf
    IN  /\ DOMAIN r = ExpCo2Columns(src)
        /\ r["time"] = src["time"]
        /\ r["co2flx_dif"] = src["dif"] * f
        /\ r["co2flx_tflx"] = src["tflx"] * f
        /\ r["co2flx_adv"] = src["adv"] * f
        /\ \A sp \in {"g1", "g2", "g3", "arg", "cc", "dlm"} \cap DOMAIN src :
              r[sp] = src[sp] * f
        /\ HasOrg(src) => r["co2flx_resp"] = OrgSum(src) * f
        /\ HasInorg(src) =>
              /\ r["co2flx_inorg"] = InorgSum(src) * f
              /\ r["co2flx_adv_noinorg"] = (src["adv"] + InorgSum(src)) * f
        /\ r["runname"] = "run1"
        /\ r["var"] = "pco2"

\* row i of carbAlk_adv's result holds the upstream values times tf; sfx is
\* the unit suffix of its CO2 potential columns
CarbAlkRowScaledBy(i, tf, sfx) ==
    LET r == outdf[i]
        src == SrcRow(i)
        sil == (IF convert_units THEN 8802 ELSE 880200) * tf
        cc == (IF convert_units THEN 4401 ELSE 440100) * tf
    IN  /\ DOMAIN r = {"time", "calkflx_tflx", "calkflx_adv", "calkflx_tot",
                       "co2pot_adv_" \o sfx \o "_sil",
                       "co2pot_adv_" \o sfx \o "_cc",
                       "co2pot_tot_" \o sfx \o "_sil",
                       "co2pot_tot_" \o sfx \o "_cc",
                       "units", "flx_type", "runname", "var"}
        /\ r["time"] = src["time"]
        /\ r["calkflx_tflx"] = src["tflx"] * tf
        /\ r["calkflx_adv"] = src["adv"] * tf
        /\ r["calkflx_tot"] = (src["adv"] + src["tflx"]) * tf
        /\ r["co2pot_adv_" \o sfx \o "_sil"] = src["adv"] * sil
        /\ r["co2pot_adv_" \o sfx \o "_cc"] = src["adv"] * cc
        /\ r["co2pot_tot_" \o sfx \o "_sil"] = (src["adv"] + src["tflx"]) * sil
        /\ r["co2pot_tot_" \o sfx \o "_cc"] = (src["adv"] + src["tflx"]) * cc
        /\ r["runname"] = "run1"
        /\ r["var"] = "ALK"

\* C7: in the tables returned by co2_flx and carbAlk_adv, every numeric
\* non-time column of an int_flx row is the unit-converted upstream value
\* multiplied once by the time of that row, no flx row is multiplied by time,
\* and the time column and the labels units, flx_type, runname and var are
\* not scaled.
C7_TimeMultiplication ==
    /\ flxpc = "co2_flx" =>
          \A i \in DOMAIN outdf :
              IF IsIntRow(i)
              THEN /\ Co2RowScaledBy(i, SrcRow(i)["time"])
                   /\ outdf[i]["flx_type"] = "int_flx"
                   /\ outdf[i]["units"]
                         = (IF convert_units THEN "ton ha-1" ELSE "g m-2")
              ELSE /\ Co2RowScaledBy(i, 1)
                   /\ outdf[i]["flx_type"] = "flx"
                   /\ outdf[i]["units"]
                         = (IF convert_units THEN "ton ha-1 yr-1"
                            ELSE "g m-2 yr-1")
    /\ flxpc = "carbAlk_adv" =>
          \A i \in DOMAIN outdf :
              IF IsIntRow(i)
              THEN /\ CarbAlkRowScaledBy(i, SrcRow(i)["time"],
                          IF convert_units THEN "tonHa" ELSE "gm2")
                   /\ outdf[i]["flx_type"] = "int_flx"
                   /\ outdf[i]["units"] = "mol m-2"
              ELSE /\ CarbAlkRowScaledBy(i, 1,
                          IF convert_units THEN "tonHaYr" ELSE "gm2Yr")
                   /\ outdf[i]["flx_type"] = "flx"
                   /\ outdf[i]["units"] = "mol m-2 yr"

\* carbAlk_adv has returned a table whose int_flx row of year 2 holds twice
\* the upstream adv, next to a flx row of year 2 that holds it unscaled
C7_Witness ==
    /\ flxpc = "carbAlk_adv"
    /\ Len(df) = 2
    /\ Len(dfint) = 2
    /\ outdf[4]["flx_type"] = "int_flx"
    /\ outdf[4]["time"] = 2
    /\ outdf[4]["calkflx_adv"] = 2 * dfint[2]["adv"]
    /\ outdf[4]["calkflx_adv"] # 0
    /\ outdf[2]["flx_type"] = "flx"
    /\ outdf[2]["calkflx_adv"] = df[2]["adv"]

-----------------------------------------------------------------------------
(* Properties of sumCat_adv (SpecCat).  The expected values are written     *)
(* from the files of flxdir; the summary returned for n-row files has its   *)
(* instantaneous rows at 1..n and its integrated rows at n+1..2n, and so    *)
(* has every detail table.                                                  *)

CatsWithFlxFile ==
    {c \in {"ca", "mg", "k", "na"} : FlxFile("flx_aq", c) \in DOMAIN flxdir}

CatsWithIntFile ==
    {c \in {"ca", "mg", "k", "na"} : IntFile("flx_aq", c) \in DOMAIN flxdir}

RawInst(c) == flxdir[FlxFile("flx_aq", c)]
RawInt(c) == flxdir[IntFile("flx_aq", c)]

\* the number of rows of the files of this run
CatRows == Len(RawInst(CHOOSE c \in CatsWithFlxFile : TRUE))

\* the sum over the cations of S of charge times F
ChargeSum(S, F(_)) ==
    (IF "ca" \in S THEN 2 * F("ca") ELSE 0)
    + (IF "mg" \in S THEN 2 * F("mg") ELSE 0)
    + (IF "k" \in S THEN F("k") ELSE 0)
    + (IF "na" \in S THEN F("na") ELSE 0)

\* the sum over the cations of S of F
PlainSum(S, F(_)) ==
    (IF "ca" \in S THEN F("ca") ELSE 0)
    + (IF "mg" \in S THEN F("mg") ELSE 0)
    + (IF "k" \in S THEN F("k") ELSE 0)
    + (IF "na" \in S THEN F("na") ELSE 0)

\* the members of S joined by "+" in the order ca, mg, k, na
ExpVar(S) ==
    LET p == SelectSeq(<<"ca", "mg", "k", "na">>, LAMBDA c : c \in S)
    IN  CASE Len(p) = 1 -> p[1]
          [] Len(p) = 2 -> p[1] \o "+" \o p[2]
          [] Len(p) = 3 -> p[1] \o "+" \o p[2] \o "+" \o p[3]
          [] Len(p) = 4 -> p[1] \o "+" \o p[2] \o "+" \o p[3] \o "+" \o p[4]
          [] OTHER -> ""

\* the int_flx rows of the summary hold the charge-weighted average rates of
\* the int_ files multiplied once by time
SummaryIntegratedOnce ==
    sc_pc = "returned" =>
        \A j \in 1..CatRows :
            LET r == sc_ret.outdfx[CatRows + j]
            IN  /\ r["flx_type"] = "int_flx"
                /\ r["time"] = j
                /\ r["tflx_charge"]
                      = j * ChargeSum(CatsWithFlxFile,
                                      LAMBDA c : RawInt(c)[j]["tflx"])
                /\ r["adv_charge"]
                      = j * ChargeSum(CatsWithFlxFile,
                                      LAMBDA c : RawInt(c)[j]["adv"])

\* the int_flx rows of every detail table hold the average rates of the
\* cation's int_ file multiplied once by time
DetailsIntegratedOnce ==
    sc_pc = "returned" =>
        \A c \in DOMAIN sc_ret.out_dict :
            \A j \in 1..CatRows :
                LET d == sc_ret.out_dict[c][CatRows + j]
                IN  /\ d["flx_type"] = "int_flx"
                    /\ d["time"] = j
                    /\ d["tflx"] = j * RawInt(c)[j]["tflx"]
                    /\ d["adv"] = j * RawInt(c)[j]["adv"]

\* C8 (as claimed): in the summary table and in every per-cation detail table
\* returned by sumCat_adv, the numeric columns of the int_flx rows are the
\* average rates of the int_ files multiplied once by the time of the row.
C8_IntegratedRowsTimesTime ==
    /\ SummaryIntegratedOnce
    /\ DetailsIntegratedOnce

\* C9: whenever sumCat_adv returns, the cations S whose flx_aq file exists are
\* not empty, the detail tables are keyed by exactly S, var of every summary
\* row is the members of S joined by "+" in registry order, and every summed
\* column of a summary row is the sum over exactly the cations of S (of the
\* charge-weighted file values for tflx and adv, of the detail values for the
\* sources and the CO2 potentials; times time in int_flx rows).  With the
\* default convert_units it returns for every non-empty S whose int_ files
\* exist too.
C9_CationSubset ==
    LET S == CatsWithFlxFile
    IN  /\ (sc_convert_units /\ S # {} /\ S \subseteq CatsWithIntFile)
              => sc_pc # "raised"
        /\ sc_pc = "returned" =>
              /\ S # {}
              /\ DOMAIN sc_ret.out_dict = S
              /\ Len(sc_ret.outdfx) = 2 * CatRows
              /\ \A i \in DOMAIN sc_ret.outdfx :
                    LET r == sc_ret.outdfx[i]
                        int == i > CatRows
                        j == IF int THEN i - CatRows ELSE i
                        tf == IF int THEN j ELSE 1
                        sfx == IF int THEN "tonHa" ELSE "tonHaYr"
                        Raw(c) == IF int THEN RawInt(c)[j] ELSE RawInst(c)[j]
                        Det(c) == sc_ret.out_dict[c][i]
                    IN  /\ r["var"] = ExpVar(S)
                        /\ r["time"] = j
                        /\ r["tflx_charge"]
                              = tf * ChargeSum(S, LAMBDA c : Raw(c)["tflx"])
                        /\ r["adv_charge"]
                              = tf * ChargeSum(S, LAMBDA c : Raw(c)["adv"])
                        /\ r["carbsld_source_charge"]
                              = tf * ChargeSum(S,
                                     LAMBDA c : Det(c)["carbsld_source"])
                        /\ r["noncarbsld_source_charge"]
                              = tf * ChargeSum(S,
                                     LAMBDA c : Det(c)["noncarbsld_source"])
                        /\ r["co2pot_adv_" \o sfx]
                              = tf * PlainSum(S,
                                     LAMBDA c : Det(c)["co2pot_adv_" \o sfx])
                        /\ r["co2pot_tot_" \o sfx]
                              = tf * PlainSum(S,
                                     LAMBDA c : Det(c)["co2pot_tot_" \o sfx])

\* only ca and mg have files, with different contents; sumCat_adv returned
\* their details and a summary labelled ca+mg that adds both
C9_Witness ==
    /\ sc_pc = "returned"
    /\ CatsWithFlxFile = {"ca", "mg"}
    /\ RawInst("ca") # RawInst("mg")
    /\ DOMAIN sc_ret.out_dict = {"ca", "mg"}
    /\ sc_ret.outdfx[1]["var"] = "ca+mg"
    /\ sc_ret.outdfx[1]["tflx_charge"]
          = 2 * RawInst("ca")[1]["tflx"] + 2 * RawInst("mg")[1]["tflx"]
    /\ sc_ret.outdfx[1]["tflx_charge"] # 0

\* C10 (as claimed): with the default convert_units, sumCat_adv never raises,
\* whichever of the cation files are absent.
C10_AbsenceNeverRaises ==
    sc_convert_units => sc_pc # "raised"

-----------------------------------------------------------------------------
(* Properties of build_cation_df (SpecCat) *)

\* a row of a table built by build_cation_df under convert_units = conv holds
\* its CO2 potentials as claimed.  The potentials are counts of half a unit,
\* so the flux -tflx - noncarbsld_source - carbsld_source/2 appears doubled;
\* 44.01 x unit factor is 4401 (ton/ha) or 440100 (g/m2) in 1e-4 units.
CationPotentialsRow(r, ccharge, conv) ==
    LET int == r["flx_type"] = "int_flx"
        sfx == IF conv THEN (IF int THEN "tonHa" ELSE "tonHaYr")
               ELSE (IF int THEN "gm2" ELSE "gm2Yr")
        f == IF conv THEN 4401 ELSE 440100
        adv2 == - 2 * r["tflx"] - 2 * r["noncarbsld_source"]
                - r["carbsld_source"]
        tot2 == - 2 * r["noncarbsld_source"] - r["carbsld_source"]
    IN  /\ r["charge"] = ccharge
        /\ r["co2pot_adv_" \o sfx] = adv2 * ccharge * f
        /\ r["co2pot_tot_" \o sfx] = tot2 * ccharge * f
        /\ r["co2pot_adv_" \o sfx] - r["co2pot_tot_" \o sfx]
              = - 2 * r["tflx"] * ccharge * f

ChargeOf(c) == IF c \in {"ca", "mg"} THEN 2 ELSE 1

\* C11: in every row of the instantaneous and integrated tables that
\* build_cation_df builds (called directly with either convert_units, or by
\* sumCat_adv for every discovered cation), co2pot_adv is (-tflx
\* - noncarbsld_source - carbsld_source/2) x charge x 44.01 x unit factor and
\* co2pot_tot is (-noncarbsld_source - carbsld_source/2) x charge x 44.01
\* x unit factor, with unit factor 0.01 for ton/ha and 1 for g/m2; their
\* difference is -tflx x charge x 44.01 x unit factor.
C11_CationPotentials ==
    /\ sc_pc = "built" =>
          \A i \in DOMAIN sc_ret.outdf :
              /\ CationPotentialsRow(sc_ret.outdf[i], ChargeOf(sc_ret.cation),
                                     sc_convert_units)
              /\ sc_ret.outdf[i]["tflx"]
                    = (IF i <= CatRows THEN RawInst(sc_ret.cation)[i]
                       ELSE RawInt(sc_ret.cation)[i - CatRows])["tflx"]
    /\ sc_pc = "returned" =>
          \A c \in DOMAIN sc_ret.out_dict :
              \A i \in DOMAIN sc_ret.out_dict[c] :
                  CationPotentialsRow(sc_ret.out_dict[c][i], ChargeOf(c), TRUE)

\* a g/m2 table of a divalent cation with an integrated row in which both
\* source sums and the storage term are non-zero
C11_Witness ==
    /\ sc_pc = "built"
    /\ ~sc_convert_units
    /\ sc_ret.cation = "mg"
    /\ \E i \in DOMAIN sc_ret.outdf :
          LET r == sc_ret.outdf[i]
          IN  /\ r["flx_type"] = "int_flx"
              /\ r["carbsld_source"] # 0
              /\ r["noncarbsld_source"] # 0
              /\ r["tflx"] # 0
              /\ r["co2pot_adv_gm2"] # r["co2pot_tot_gm2"]

-----------------------------------------------------------------------------
(* Properties of the running sum of sumCat_adv (SpecCatGrid) *)

\* cation c's detail table has a row of type ft at time t
HasDetAt(c, ft, t) ==
    \E k \in DOMAIN sc_ret.out_dict[c] :
        /\ sc_ret.out_dict[c][k]["flx_type"] = ft
        /\ sc_ret.out_dict[c][k]["time"] = t

\* that row
DetAt(c, ft, t) ==
    sc_ret.out_dict[c][CHOOSE k \in DOMAIN sc_ret.out_dict[c] :
                           /\ sc_ret.out_dict[c][k]["flx_type"] = ft
                           /\ sc_ret.out_dict[c][k]["time"] = t]

\* C12 (as claimed): every row of the summary has a time, and where every
\* discovered cation has a row at that time each summed column is the sum
\* over the discovered cations of the cation's charge-weighted value at that
\* same time (times time in int_flx rows), also when the cations' tables
\* differ in row count or in time values.
C12_SumKeyedByTime ==
    sc_pc = "returned" =>
        \A i \in DOMAIN sc_ret.outdfx :
            LET r == sc_ret.outdfx[i]
                S == DOMAIN sc_ret.out_dict
                ft == r["flx_type"]
                sfx == IF ft = "int_flx" THEN "tonHa" ELSE "tonHaYr"
            IN  /\ "time" \in DOMAIN r
                /\ (\A c \in S : HasDetAt(c, ft, r["time"])) =>
                      LET t == r["time"]
                          tf == IF ft = "int_flx" THEN t ELSE 1
                      IN  /\ {"tflx_charge", "adv_charge",
                              "carbsld_source_charge",
                              "noncarbsld_source_charge",
                              "co2pot_adv_" \o sfx, "co2pot_tot_" \o sfx}
                                \subseteq DOMAIN r
                          /\ r["tflx_charge"] = tf * ChargeSum(S,
                                LAMBDA c : DetAt(c, ft, t)["tflx"])
                          /\ r["adv_charge"] = tf * ChargeSum(S,
                                LAMBDA c : DetAt(c, ft, t)["adv"])
                          /\ r["carbsld_source_charge"] = tf * ChargeSum(S,
                                LAMBDA c : DetAt(c, ft, t)["carbsld_source"])
                          /\ r["noncarbsld_source_charge"] = tf * ChargeSum(S,
                                LAMBDA c : DetAt(c, ft, t)["noncarbsld_source"])
                          /\ r["co2pot_adv_" \o sfx] = tf * PlainSum(S,
                                LAMBDA c : DetAt(c, ft, t)["co2pot_adv_" \o sfx])
                          /\ r["co2pot_tot_" \o sfx] = tf * PlainSum(S,
                                LAMBDA c : DetAt(c, ft, t)["co2pot_tot_" \o sfx])

-----------------------------------------------------------------------------
(* Further properties of carbAlk_adv and co2_flx (SpecFlx) *)

\* the unit suffix of the CO2 potential columns of row i of carbAlk_adv
CarbAlkSuffix(i) ==
    IF convert_units THEN (IF IsIntRow(i) THEN "tonHa" ELSE "tonHaYr")
    ELSE (IF IsIntRow(i) THEN "gm2" ELSE "gm2Yr")

\* C13: in every row carbAlk_adv returns, calkflx_tot = calkflx_adv
\* + calkflx_tflx; the silicate potentials are the advective and the total
\* flux times 88.02 x unit factor, the carbonate potentials the same fluxes
\* times 44.01 x unit factor, so each _sil potential is twice its _cc
\* potential; and the row is determined by time, tflx and adv of its input
\* row alone, whatever dif and the source columns of the input hold.
C13_CarbAlkPotentials ==
    flxpc = "carbAlk_adv" =>
        \A i \in DOMAIN outdf :
            LET r == outdf[i]
                src == SrcRow(i)
                sfx == CarbAlkSuffix(i)
                u == IF convert_units THEN 1 ELSE 100
            IN  /\ r["calkflx_adv"] = src["adv"] * ExpTimeFactor(i)
                /\ r["calkflx_tflx"] = src["tflx"] * ExpTimeFactor(i)
                /\ r["calkflx_tot"] = r["calkflx_adv"] + r["calkflx_tflx"]
                /\ r["co2pot_adv_" \o sfx \o "_sil"]
                      = r["calkflx_adv"] * 8802 * u
                /\ r["co2pot_adv_" \o sfx \o "_cc"]
                      = r["calkflx_adv"] * 4401 * u
                /\ r["co2pot_tot_" \o sfx \o "_sil"]
                      = r["calkflx_tot"] * 8802 * u
                /\ r["co2pot_tot_" \o sfx \o "_cc"]
                      = r["calkflx_tot"] * 4401 * u
                /\ r["co2pot_adv_" \o sfx \o "_sil"]
                      = 2 * r["co2pot_adv_" \o sfx \o "_cc"]
                /\ r["co2pot_tot_" \o sfx \o "_sil"]
                      = 2 * r["co2pot_tot_" \o sfx \o "_cc"]
                /\ DOMAIN r \cap (DOMAIN src \ {"time"}) = {}

\* an int_flx row of year 2 whose input has a non-zero dif and source
\* columns, and whose total differs from its advective flux
C13_Witness ==
    /\ flxpc = "carbAlk_adv"
    /\ \E i \in DOMAIN outdf :
          /\ IsIntRow(i)
          /\ outdf[i]["time"] = 2
          /\ SrcRow(i)["dif"] # 0
          /\ {"g1", "cc"} \subseteq DOMAIN SrcRow(i)
          /\ outdf[i]["calkflx_adv"] # 0
          /\ outdf[i]["calkflx_tot"] # outdf[i]["calkflx_adv"]
          /\ outdf[i]["co2pot_tot_" \o CarbAlkSuffix(i) \o "_sil"] # 0

-----------------------------------------------------------------------------
(* Properties of sld_flx (SpecSld) *)

\* row i of the returned table has a finite integrated dust
HasDust(i) == "int_dust_ton_ha_yr" \in DOMAIN sld_ret[i]

\* molar mass x conv_factor of the feedstock, in 1/2400000 ton ha-1 per mol
ExpMassFactor ==
    (IF sld_feedstock = "cc" THEN 100089 ELSE 120496) * 24

\* C14: in every row sld_flx returns with int_dust_ton_ha_yr > 0, under
\* either value of dust_from_file, the three fractions fraction_sld_advected,
\* fraction_sld_remaining and fraction_total_dissolved are quotients by
\* int_dust_ton_ha_yr whose numerators add up to it (so they sum to 1),
\* fraction_total_dissolved is total_dissolution / int_dust_ton_ha_yr,
\* total_dissolution is the feedstock's own integrated column, and
\* dust_minus_adv = int_dust_ton_ha_yr - adv.
C14_FractionsSumToOne ==
    sld_pc = "returned" =>
        \A i \in DOMAIN sld_ret :
            LET r == sld_ret[i]
            IN  (HasDust(i) /\ r["int_dust_ton_ha_yr"] > 0) =>
                  /\ r["fraction_sld_advected"]["den"] = r["int_dust_ton_ha_yr"]
                  /\ r["fraction_sld_remaining"]["den"] = r["int_dust_ton_ha_yr"]
                  /\ r["fraction_total_dissolved"]["den"]
                        = r["int_dust_ton_ha_yr"]
                  /\ r["fraction_sld_advected"]["num"]
                     + r["fraction_sld_remaining"]["num"]
                     + r["fraction_total_dissolved"]["num"]
                        = r["int_dust_ton_ha_yr"]
                  /\ r["fraction_sld_advected"]["num"] = r["adv"]
                  /\ r["fraction_total_dissolved"]["num"]
                        = r["total_dissolution"]
                  /\ r["total_dissolution"] = r[sld_feedstock]
                  /\ r["total_dissolution"]
                        = sld_dfint[i][sld_feedstock] * sld_dfint[i]["time"]
                          * ExpMassFactor
                  /\ r["adv"] = sld_dfint[i]["adv"] * sld_dfint[i]["time"]
                                * ExpMassFactor
                  /\ r["dust_minus_adv"] = r["int_dust_ton_ha_yr"] - r["adv"]

\* a row of a basalt run with a positive dust integrated from dust.txt and
\* three non-zero numerators
C14_Witness ==
    /\ sld_pc = "returned"
    /\ \E i \in DOMAIN sld_ret :
          /\ HasDust(i)
          /\ sld_ret[i]["int_dust_ton_ha_yr"] > 0
          /\ sld_ret[i]["fraction_sld_advected"]["num"] # 0
          /\ sld_ret[i]["fraction_sld_remaining"]["num"] # 0
          /\ sld_ret[i]["fraction_total_dissolved"]["num"] # 0
          /\ dust_from_file
          /\ sld_feedstock = "gbas"

\* dust.txt has two rows with the same time
HasDuplicateTimes ==
    \E i, j \in DOMAIN dfdust0 :
        i < j /\ dfdust0[i]["time"] = dfdust0[j]["time"]

\* the dust series that keeps only the first row of each time value, with the
\* cumulative trapezoidal integral of that series
KeepFirstIntegral ==
    LET nodup == drop_duplicates(dfdust0)
    IN  with_int_dust([k \in DOMAIN nodup |-> nodup[k].row],
                      dust_dx(dfdust0, sld_feedstock))

\* C15: whenever dust.txt has several rows with the same time, the integrated
\* dust of every returned row whose time is a time of dust.txt is the
\* cumulative trapezoidal integral of the keep-first series at that time,
\* whether or not dust.txt and the target table have the same length.
C15_KeepFirstBeforeIntegration ==
    (sld_pc = "returned" /\ dust_from_file /\ HasDuplicateTimes) =>
        \A i \in DOMAIN sld_ret :
            \A k \in DOMAIN KeepFirstIntegral :
                KeepFirstIntegral[k]["time"] = sld_ret[i]["time"] =>
                    /\ HasDust(i)
                    /\ sld_ret[i]["int_dust_ton_ha_yr"]
                          = 1000 * KeepFirstIntegral[k]["int_dust_g_m2_yr"]

\* the rate column of dust.txt that sld_flx integrates, by row
DustRate(i) ==
    dfdust0[i]["dust" \o dust_dx(dfdust0, sld_feedstock) \o "_g_m2_yr"]

\* dust.txt and the target table have the same number of rows and the times
\* of dust.txt increase strictly, so the returned int_dust_ton_ha_yr column is
\* the cumulative integral itself, row by row
IntegralReturned ==
    /\ sld_pc = "returned"
    /\ dust_from_file
    /\ Len(dfdust0) = Len(sld_df)
    /\ \A i \in 2..Len(dfdust0) : dfdust0[i - 1]["time"] < dfdust0[i]["time"]

\* C16: over a strictly increasing time column the cumulative integral has
\* one value per input row, is zero in the first row, and grows from row
\* i - 1 to row i by (rate[i-1] + rate[i]) / 2 x (time[i] - time[i-1]), so it
\* is the sum of these steps; a zero-rate series integrates to zeros and a
\* constant-rate series to rate x (time[i] - time[1]).
C16_CumulativeTrapezoid ==
    IntegralReturned =>
        /\ Len(sld_ret) = Len(dfdust0)
        /\ \A i \in DOMAIN sld_ret : HasDust(i)
        /\ sld_ret[1]["int_dust_ton_ha_yr"] = 0
        /\ \A i \in 2..Len(sld_ret) :
              2 * (sld_ret[i]["int_dust_ton_ha_yr"]
                   - sld_ret[i - 1]["int_dust_ton_ha_yr"])
                  = 24000 * (DustRate(i - 1) + DustRate(i))
                    * (dfdust0[i]["time"] - dfdust0[i - 1]["time"])
        /\ (\A k \in DOMAIN dfdust0 : DustRate(k) = 0) =>
              \A i \in DOMAIN sld_ret : sld_ret[i]["int_dust_ton_ha_yr"] = 0
        /\ (\A k \in DOMAIN dfdust0 : DustRate(k) = DustRate(1)) =>
              \A i \in DOMAIN sld_ret :
                  sld_ret[i]["int_dust_ton_ha_yr"]
                      = 24000 * DustRate(1)
                        * (dfdust0[i]["time"] - dfdust0[1]["time"])

\* a three-row series with a rising rate, integrated and returned
C16_Witness ==
    /\ IntegralReturned
    /\ Len(sld_ret) = 3
    /\ DustRate(1) < DustRate(2)
    /\ DustRate(2) < DustRate(3)
    /\ sld_ret[3]["int_dust_ton_ha_yr"] > sld_ret[2]["int_dust_ton_ha_yr"]

\* the times of dust.txt
DustTimes == {dfdust0[k]["time"] : k \in DOMAIN dfdust0}

\* the cumulative integral of lines 509-511 at the dust time t, taken from
\* the first row of dust.txt with that time
DustIntegralAt(t) ==
    LET dfdust == with_int_dust(dfdust0, dust_dx(dfdust0, sld_feedstock))
        k == CHOOSE k \in DOMAIN dfdust :
                 /\ dfdust[k]["time"] = t
                 /\ \A j \in 1..(k - 1) : dfdust[j]["time"] # t
    IN  dfdust[k]["int_dust_g_m2_yr"]

\* C17: when dust.txt and the target table differ in length, sld_flx returns
\* one row per row of the target table, in the target's time order; at a
\* target time that is a dust time the integrated dust is the dust integral
\* at that time, and at a target time between two neighbouring dust times a
\* and b it lies on the straight line in time between the integrals at a and
\* at b.
C17_InterpolatedInTime ==
    (sld_pc = "returned" /\ dust_from_file /\ Len(dfdust0) # Len(sld_df)) =>
        /\ Len(sld_ret) = Len(sld_df)
        /\ \A i \in DOMAIN sld_ret :
              LET t == sld_df[i]["time"]
                  before == {a \in DustTimes : a < t}
                  after == {b \in DustTimes : t < b}
              IN  /\ sld_ret[i]["time"] = t
                  /\ t \in DustTimes =>
                        /\ HasDust(i)
                        /\ sld_ret[i]["int_dust_ton_ha_yr"]
                              = 1000 * DustIntegralAt(t)
                  /\ (t \notin DustTimes /\ before # {} /\ after # {}) =>
                        LET a == CHOOSE a \in before : \A z \in before : z <= a
                            b == CHOOSE b \in after : \A z \in after : b <= z
                        IN  /\ HasDust(i)
                            /\ sld_ret[i]["int_dust_ton_ha_yr"] * (b - a)
                                  = 1000 * (DustIntegralAt(a) * (b - t)
                                            + DustIntegralAt(b) * (t - a))

\* C18: with dust from dust.txt, every returned row whose time lies before
\* the first or after the last dust time point has a non-finite
\* int_dust_ton_ha_yr (no extrapolated or carried-over value), and the edge
\* gaps raise nothing: the only exception of sld_flx is the KeyError of a
\* feedstock without a molar mass.
C18_EdgeGapsNonFinite ==
    /\ (sld_pc = "returned" /\ dust_from_file) =>
          \A i \in DOMAIN sld_ret :
              ((\A a \in DustTimes : sld_ret[i]["time"] < a)
               \/ (\A b \in DustTimes : b < sld_ret[i]["time"]))
                  => ~HasDust(i)
    /\ sld_pc = "raised" => sld_raised = "KeyError"

-----------------------------------------------------------------------------
(* Unit conversion of co2_flx (SpecFlx) *)

\* the numeric columns of a row of co2_flx's result other than time
Co2NumericColumns(r) ==
    DOMAIN r \ {"time", "units", "flx_type", "runname", "var"}

\* C19: in every row co2_flx returns, time is the time of the input row; the
\* units label is "ton ha-1 yr-1" (flx) or "ton ha-1" (int_flx) when
\* convert_units and "g m-2 yr-1" or "g m-2" when not; co2flx_tflx is the
\* input tflx times 44.01 x 0.01 when convert_units and times 44.01 when not
\* (times time in int_flx rows); and every numeric column other than time is
\* in ton/ha exactly 0.01 times what the call with the other value of
\* convert_units returns in g/m2 for the same input.
C19_UnitConversion ==
    flxpc = "co2_flx" =>
        LET other == co2_flx(df, dfint, ~convert_units, "pco2")
        IN  /\ Len(other) = Len(outdf)
            /\ \A i \in DOMAIN outdf :
                  LET r == outdf[i]
                      o == other[i]
                  IN  /\ r["time"] = SrcRow(i)["time"]
                      /\ o["time"] = r["time"]
                      /\ r["units"] =
                            (IF convert_units
                             THEN (IF IsIntRow(i) THEN "ton ha-1"
                                   ELSE "ton ha-1 yr-1")
                             ELSE (IF IsIntRow(i) THEN "g m-2"
                                   ELSE "g m-2 yr-1"))
                      /\ r["co2flx_tflx"] =
                            SrcRow(i)["tflx"] * ExpTimeFactor(i)
                            * (IF convert_units THEN 4401 ELSE 4401 * 100)
                      /\ Co2NumericColumns(o) = Co2NumericColumns(r)
                      /\ \A c \in Co2NumericColumns(r) :
                            IF convert_units THEN 100 * r[c] = o[c]
                            ELSE r[c] = 100 * o[c]

\* a converted int_flx row of year 2 with non-zero fluxes and an inorganic
\* species column
C19_Witness ==
    /\ flxpc = "co2_flx"
    /\ convert_units
    /\ \E i \in DOMAIN outdf :
          /\ IsIntRow(i)
          /\ outdf[i]["time"] = 2
          /\ outdf[i]["units"] = "ton ha-1"
          /\ outdf[i]["co2flx_tflx"] # 0
          /\ "cc" \in DOMAIN outdf[i]
          /\ outdf[i]["cc"] # 0

-----------------------------------------------------------------------------
(* Frame of the five functions over a session of calls (SpecSession) *)

\* the result of a call that returned a table, or of a cflx_calc that
\* pickled one
HoldsTable(r) ==
    /\ r.exc = "none"
    /\ \/ "out" \in DOMAIN r /\ r.out # <<>>
       \/ "tdfint" \in DOMAIN r /\ r.tdfint # <<>>
       \/ "outdfx" \in DOMAIN r /\ r.outdfx # <<>>
       \/ "pickled" \in DOMAIN r /\ DOMAIN r.pickled # {}

\* a step is a call of co2_flx, carbAlk_adv, sumCat_adv, sld_flx or
\* cflx_calc
FlxCall == \E k \in FlxKeys : calls'[k] # calls[k]

\* C20: over any sequence of calls on a run, calls of prof_postproc_save
\* among them, no call changes a file under flx/ or prof/, adds a file to
\* them or removes one, and no call removes a subdirectory; a call of
\* co2_flx, carbAlk_adv, sumCat_adv, sld_flx or cflx_calc creates no
\* subdirectory but the save directory and leaves every file outside the
\* save directory as it is; the module-level molar_mass_dict, the
\* default-argument lists and dicts (species lists, cation registry and its
\* order, calc_list) and the arguments as the caller holds them (feedstock,
\* calc_list) stay as they are; and a call of one of the five functions of
\* a kind made before ends as the earlier call of that kind did, with the
\* same exception or the same tables, cell by cell.
C20_PurelyFunctional ==
    [][/\ "flx" \in DOMAIN rundir' /\ rundir'["flx"] = rundir["flx"]
       /\ "prof" \in DOMAIN rundir' /\ rundir'["prof"] = rundir["prof"]
       /\ DOMAIN rundir \subseteq DOMAIN rundir'
       /\ FlxCall =>
             /\ DOMAIN rundir' \subseteq DOMAIN rundir \cup {save_dir}
             /\ \A d \in DOMAIN rundir \ {save_dir} : rundir'[d] = rundir[d]
       /\ module_dict' = module_dict
       /\ defaults' = defaults
       /\ caller' = caller
       /\ \A k \in DOMAIN results \cap FlxKeys :
             k \in DOMAIN results' /\ results'[k] = results[k]]_vars

\* cflx_calc has run twice on a complete run with a list of two feedstocks
\* and the default calc_list, pickling every table, and sld_flx has been
\* called directly in between or after and returned its table
C20_Witness ==
    /\ calls # <<>>
    /\ calls["cflx_calc"] = 2
    /\ calls[SldKey("gbas")] = 1
    /\ caller.feedstock.list
    /\ Len(caller.feedstock.val) = 2
    /\ ~caller.calc_list.given
    /\ HoldsTable(results["cflx_calc"])
    /\ HoldsTable(results[SldKey("gbas")])
    /\ save_dir \in DOMAIN rundir
    /\ DOMAIN rundir[save_dir] =
          {co2_savename, carbAlk_savename, "cationflx_sum.pkl",
           "cationflx_ca.pkl", "cationflx_mg.pkl", "cationflx_k.pkl",
           "cationflx_na.pkl", "rockflx_cc.pkl", "rockflx_gbas.pkl"}
    /\ rundir[save_dir]["rockflx_gbas.pkl"] = results[SldKey("gbas")].tdfint

-----------------------------------------------------------------------------
(* Properties of preprocess_txt (SpecTxt) *)

\* the lines of the file that hold at least one word
WordLines == {i \in DOMAIN txt_tokens : txt_tokens[i] # <<>>}

\* the first line that holds a word
HeaderLine == CHOOSE h \in WordLines : \A z \in WordLines : h <= z

\* the file has a header line, every line after it holds as many words as
\* the header, and with map_numeric every such word is numeric
WellFormedFile ==
    /\ WordLines # {}
    /\ \A j \in DOMAIN txt_tokens :
          j > HeaderLine =>
              /\ Len(txt_tokens[j]) = Len(txt_tokens[HeaderLine])
              /\ map_numeric =>
                    \A k \in DOMAIN txt_tokens[j] :
                        txt_tokens[j][k] \in DOMAIN NumericValue

\* C21: for a well-formed file, whatever the whitespace around and between
\* the words and however many blank lines precede the header, preprocess_txt
\* returns the frame whose columns are the words of the first non-empty
\* line and whose rows are the lines after it, in file order, the k-th word
\* of a line under the k-th column.
C21_HeaderFirstNonEmptyLine ==
    (txt_pc # "ready" /\ WellFormedFile) =>
        /\ txt_pc = "returned"
        /\ txt_ret.columns = txt_tokens[HeaderLine]
        /\ Len(txt_ret.rows) = Len(txt_tokens) - HeaderLine
        /\ \A j \in 1..(Len(txt_tokens) - HeaderLine) :
              /\ Len(txt_ret.rows[j]) = Len(txt_tokens[HeaderLine])
              /\ \A k \in DOMAIN txt_tokens[HeaderLine] :
                    txt_ret.rows[j][k] =
                        (IF map_numeric
                         THEN [num |-> NumericValue[txt_tokens[HeaderLine + j][k]]]
                         ELSE [str |-> txt_tokens[HeaderLine + j][k]])

-----------------------------------------------------------------------------
(* Further properties of sld_flx (SpecSld) *)

\* the columns of sld_flx's result that divide by int_dust_ton_ha_yr
DustFractions ==
    {"fraction_sld_advected", "fraction_sld_remaining",
     "fraction_total_dissolved"}

\* C22: sld_flx raises nothing over a zero dust (its only exception is the
\* KeyError of an unknown feedstock); in every returned row whose
\* int_dust_ton_ha_yr is 0 the three fractions of the applied dust are
\* quotients by zero, hence non-finite, with their numerators as computed;
\* in every other row with a dust value the fractions divide by that row's
\* own non-zero dust; and with dust from dust.txt on a grid as long as the
\* target's the first row is such a zero row.
C22_ZeroDustNonFinite ==
    /\ sld_pc = "raised" => sld_raised = "KeyError"
    /\ sld_pc = "returned" =>
          /\ \A i \in DOMAIN sld_ret :
                HasDust(i) =>
                    LET r == sld_ret[i]
                    IN  /\ \A c \in DustFractions :
                              r[c]["den"] = r["int_dust_ton_ha_yr"]
                        /\ r["fraction_sld_advected"]["num"] = r["adv"]
                        /\ r["fraction_total_dissolved"]["num"]
                              = r["total_dissolution"]
                        /\ r["fraction_sld_remaining"]["num"]
                              = r["int_dust_ton_ha_yr"] - r["adv"]
                                - r["total_dissolution"]
          /\ (dust_from_file /\ Len(dfdust0) = Len(sld_df)) =>
                /\ HasDust(1)
                /\ sld_ret[1]["int_dust_ton_ha_yr"] = 0
                /\ \A c \in DustFractions : sld_ret[1][c]["den"] = 0

\* a returned table whose first row has a zero dust and a non-zero advected
\* mass, next to a row with a positive dust
C22_Witness ==
    /\ sld_pc = "returned"
    /\ dust_from_file
    /\ Len(sld_ret) = 3
    /\ HasDust(1)
    /\ sld_ret[1]["int_dust_ton_ha_yr"] = 0
    /\ sld_ret[1]["fraction_sld_advected"]["num"] # 0
    /\ sld_ret[1]["fraction_sld_advected"]["den"] = 0
    /\ HasDust(2)
    /\ sld_ret[2]["int_dust_ton_ha_yr"] > 0
    /\ sld_ret[2]["fraction_sld_advected"]["den"] > 0

\* C23: a call of sld_flx for the feedstock bslt, which molar_mass_dict does
\* not hold, raises KeyError and returns no table, with dust from dust.txt
\* and with dust from the rain column alike; a call that returns a table is
\* a call for a feedstock the table holds.
C23_UnknownFeedstockFatal ==
    /\ (sld_pc # "ready" /\ sld_feedstock = "bslt") =>
          /\ sld_pc = "raised"
          /\ sld_raised = "KeyError"
          /\ sld_ret = <<>>
    /\ sld_pc = "returned" => sld_feedstock \in {"cc", "gbas"}

\* the call for bslt with dust from the rain column has raised
C23_Witness ==
    /\ sld_pc = "raised"
    /\ sld_feedstock = "bslt"
    /\ ~dust_from_file
    /\ sld_raised = "KeyError"
    /\ Len(sld_dfint) = 3

-----------------------------------------------------------------------------
(* Further properties of build_cation_df (SpecCat) *)

\* the source columns of a row that build_cation_df returns: what the trim
\* left of the file's columns other than time, tflx, adv and res
SourceColumns(r) == DOMAIN r \cap {"dif", "gbas", "cc", "dlm", "arg"}

\* C24: in every row that build_cation_df returns, instantaneous or
\* integrated, carbsld_source is the sum of the row's source columns in
\* {cc, dlm, arg} and noncarbsld_source the sum of its other source columns,
\* so that each source column is counted in exactly one of the two, also
\* when the trim leaves the two tables with different carbonate columns.
C24_SourcePartition ==
    sc_pc = "built" =>
        \A i \in DOMAIN sc_ret.outdf :
            LET r == sc_ret.outdf[i]
            IN  /\ r["carbsld_source"]
                      = SumCols(r, SourceColumns(r) \cap {"cc", "dlm", "arg"})
                /\ r["noncarbsld_source"]
                      = SumCols(r, SourceColumns(r) \ {"cc", "dlm", "arg"})

\* the rows of the instantaneous (ft = "flx") or integrated (ft = "int_flx")
\* table in what build_cation_df returned
BuiltRows(ft) ==
    {i \in DOMAIN sc_ret.outdf : sc_ret.outdf[i]["flx_type"] = ft}

\* C25: for the instantaneous and for the integrated table separately, a
\* column of the table passed to build_cation_df is missing from the returned
\* rows of that table iff it is none of time, adv, tflx, res and all its
\* absolute values are at most the negligible_val argument.
C25_TrimByNegligibleVal ==
    sc_pc = "built" =>
        \A ft \in {"flx", "int_flx"} :
            LET raw == IF ft = "flx" THEN RawInst(sc_ret.cation)
                       ELSE RawInt(sc_ret.cation)
            IN  \A c \in DOMAIN raw[1] :
                    \A i \in BuiltRows(ft) :
                        (c \notin DOMAIN sc_ret.outdf[i])
                            = (/\ c \notin {"time", "adv", "tflx", "res"}
                               /\ \A k \in DOMAIN raw :
                                     Abs(raw[k][c]) <= sc_ret.negligible_val)

-----------------------------------------------------------------------------
(* Forwarding of cflx_calc's arguments (SpecForward) *)

\* C26: when cflx_calc is given dust_from_file=False, its sld_flx block does
\* not fail on a missing dust.txt and the rock table it computes has the
\* applied dust -rain x time x molar mass x 0.01 in every row; when it is
\* given convert_units=False, the cation tables it computes carry their CO2
\* potentials in g/m2 (columns co2pot_adv_gm2Yr / co2pot_adv_gm2).
C26_ArgumentsForwarded ==
    /\ (~dust_from_file /\ invoked = {"sumCat_adv", "sld_flx"}) =>
          /\ pc = "done"
          /\ \A i \in DOMAIN sld_ret :
                /\ HasDust(i)
                /\ sld_ret[i]["int_dust_ton_ha_yr"]
                      = -1 * sld_dfint[i]["rain"] * sld_dfint[i]["time"]
                        * ExpMassFactor
    /\ (~convert_units /\ sc_pc = "returned") =>
          \A c \in DOMAIN sc_ret.out_dict :
              \A i \in DOMAIN sc_ret.out_dict[c] :
                  LET r == sc_ret.out_dict[c][i]
                  IN  IF r["flx_type"] = "flx"
                      THEN "co2pot_adv_gm2Yr" \in DOMAIN r
                      ELSE "co2pot_adv_gm2" \in DOMAIN r

-----------------------------------------------------------------------------
(* The dust column sld_flx integrates (SpecSld) *)

\* the feedstock is named in some row of column col of dust.txt
NamedIn(col) == \E i \in DOMAIN dfdust0 : dfdust0[i][col] = sld_feedstock

\* the integrated dust per row of the feedstock's table when column dx of
\* dust.txt is the one integrated
IntegralOfColumn(dx) == intdust(sld_df, with_int_dust(dfdust0, dx))

\* the returned table carries, row by row, the integral of dust column dx
ReturnedIntegralIs(dx) ==
    \A i \in DOMAIN sld_ret :
        LET e == IntegralOfColumn(dx)[i]
        IN  /\ HasDust(i) <=> ("int_dust_g_m2_yr" \in DOMAIN e)
            /\ HasDust(i) =>
                  sld_ret[i]["int_dust_ton_ha_yr"] = e["int_dust_g_m2_yr"] * 1000

\* C27: when sld_flx returns with dust_from_file true, the applied dust is the
\* integral of dust1_g_m2_yr if the feedstock occurs in dustsp1, of
\* dust2_g_m2_yr if it occurs in dustsp2 and not in dustsp1, and when it
\* occurs in neither column no row carries a non-zero applied dust taken
\* from another species.
C27_DustColumnOfFeedstock ==
    (sld_pc = "returned" /\ dust_from_file) =>
        /\ NamedIn("dustsp1") => ReturnedIntegralIs("1")
        /\ (NamedIn("dustsp2") /\ ~NamedIn("dustsp1")) => ReturnedIntegralIs("2")
        /\ (~NamedIn("dustsp1") /\ ~NamedIn("dustsp2")) =>
              \A i \in DOMAIN sld_ret :
                  HasDust(i) => sld_ret[i]["int_dust_ton_ha_yr"] = 0

-----------------------------------------------------------------------------
(* Properties of duration_check (SpecDur) *)

\* the maximum time of the file is within duration_tol percent of the target
WithinTolerance ==
    Abs(SeqMax(dc_times) - target_duration) * 100000
        < duration_tol * target_duration

\* C28: when duration_check returns for an existing file, its result is True
\* exactly when the maximum time of the file is within duration_tol percent
\* of target_duration (so a file that stops short by more than the tolerance
\* gives False); when the file is missing it returns the 'could not complete
\* check' message with the durations 'NA', 'NA'.
C28_DurationWithinTolerance ==
    (dc_pc = "returned") =>
        IF dc_isfile
        THEN dc_ret.diff_result = [bool |-> WithinTolerance]
        ELSE /\ dc_ret.diff_result =
                  [str |-> "could not complete check; file flx_aq-ca.txt not found"]
             /\ dc_ret.dur_list = <<[str |-> "NA"], [str |-> "NA"]>>

-----------------------------------------------------------------------------
(* Properties of generate_timesteps (SpecStepsFair) *)

\* the start times 0, timestep, 2*timestep, ... not after total_duration -
\* timestep, for a positive timestep
StartTimes ==
    LET n == IF total_duration - timestep < 0 THEN 0
             ELSE (total_duration - timestep) \div timestep + 1
    IN  [k \in 1..n |-> (k - 1) * timestep]

\* C29: every call of generate_timesteps returns, a zero or negative
\* timestep included, and for a positive timestep the list returned is
\* 0, timestep, 2*timestep, ... up to the last start time s with
\* s <= total_duration - timestep.
C29_TerminatesWithStartTimes ==
    /\ <>(ts_pc = "returned")
    /\ []((ts_pc = "returned" /\ timestep > 0) => timesteparr = StartTimes)

-----------------------------------------------------------------------------
(* Properties of build_composite (SpecComposite) *)

\* the start year a sub-run directory is named after, in tenths of a year
StartYearOf(name) == startyear_of(re_search(name))

\* the positions of the composite file after its first line
DataLines == 2..Len(composite)

\* C30: when build_composite has returned, the composite flx file is one
\* header line followed by data rows only, every row of every sub-run is in
\* it once with its time shifted by the sub-run's start year (and nothing
\* else is), and the time column does not decrease from one row to the next,
\* whatever the start years.
C30_CompositeAscending ==
    (cmp_pc = "done") =>
        /\ composite # <<>>
        /\ composite[1] = Header
        /\ \A i \in DataLines : composite[i] # Header
        /\ \A n \in DOMAIN subruns : \A k \in DOMAIN subruns[n] :
              Cardinality({i \in DataLines :
                  composite[i] = [time |-> subruns[n][k].time + StartYearOf(n),
                                  tflx |-> subruns[n][k].tflx]}) = 1
        /\ \A i \in DataLines :
              \E n \in DOMAIN subruns : \E k \in DOMAIN subruns[n] :
                  composite[i] = [time |-> subruns[n][k].time + StartYearOf(n),
                                  tflx |-> subruns[n][k].tflx]
        /\ \A i, j \in DataLines :
              i < j => composite[i].time <= composite[j].time

=========================================================================
